---- MODULE Spec2Model ----
(***************************************************************************)
(* A model of the NetBird client: the DNS server (DefaultServer), the      *)
(* upstream resolver with its failure counter and probe loop, and the      *)
(* supervisor loop runClient.                                              *)
(***************************************************************************)
EXTENDS Integers, Sequences, FiniteSets, Bags, TLC

VARIABLES
    \* ---- DefaultServer (src/unnamed/part_000) ----
    updateSerial,        \* s.updateSerial
    previousConfigHash,  \* s.previousConfigHash
    currentConfig,       \* s.currentConfig (HostDNSConfig)
    dnsMuxMap,           \* s.dnsMuxMap: zone -> handler id (0 is the local resolver)
    serviceMux,          \* the service's multiplexer: zone -> handler id
    localRecords,        \* s.localResolver's registered records: key -> record
    hostManager,         \* TRUE once s.hostManager is set by Initialize
    ctxDone,             \* s.ctx has been cancelled (Stop)
    permanent,           \* s.permanent
    hostsDnsList,        \* s.hostsDnsList
    listening,           \* the service is listening
    portUnsupported,     \* RuntimePort() != defaultPort and !supportCustomPort()
    handlers,            \* every upstream resolver created so far, by id
    hostDNS,             \* what the host manager last installed
    pc,                  \* per caller of UpdateDNSServer: "idle" or "lock"
    call,                \* per caller: the arguments of its call in flight
    nCalls,              \* number of UpdateDNSServer calls made so far
    last,                \* the last completed operation and its result
    lastOps,             \* the service / host manager / handler calls it made
    installedSerial,     \* serial of the update whose configuration is installed
    nHostUpdates,        \* number of OnUpdatedHostDNSServer calls made so far
    \* ---- upstreamResolverBase (src/client/internal/dns/upstream.go) ----
    queries,             \* the bag of running ServeDNS goroutines, each at its position
    ios,                 \* runtime.GOOS == "ios"
    \* ---- runClient (src/client/internal/connect.go) ----
    state,               \* the daemon's contextState: status and wrapped error
    client,              \* runClient: its position, locals and resources
    recorder,            \* the status recorder's connection marks
    runCtx,              \* the context passed to runClient: "live" or "done"
    \* ---- history ----
    observed,            \* the DNS state seen after each call of an update sequence
    \* ---- Management's account manager and the routing firewall ----
    management,          \* the account in the store and the last call made on it
    firewall,            \* the firewall of the host and the manager's view of it
    \* ---- the daemon's Server (src/client/server/server.go) ----
    daemon               \* the Server, the contexts it made and the client runs it started

serverVars == <<updateSerial, previousConfigHash, currentConfig, dnsMuxMap,
                serviceMux, localRecords, hostManager, ctxDone, permanent,
                hostsDnsList, listening, portUnsupported, handlers, hostDNS,
                pc, call, nCalls, last, lastOps, installedSerial,
                nHostUpdates>>

resolverVars == <<queries, ios>>

clientVars == <<state, client, recorder, runCtx>>

vars == <<serverVars, resolverVars, clientVars, observed, management, firewall, daemon>>

----------------------------------------------------------------------------
(* Bounds of the model *)

NumCallers == 2
MaxCalls == 2
MaxSerial == 2
MaxHostUpdates == 1
NumQueries == 2
MaxFails == 5
MaxAttempts == 2

Callers == 1..NumCallers
Serials == 1..MaxSerial

----------------------------------------------------------------------------
(* Small helpers on finite maps *)

EmptyMap == [x \in {} |-> 0]

Put(f, k, v) == [x \in (DOMAIN f) \cup {k} |-> IF x = k THEN v ELSE f[x]]

Del(f, k) == [x \in (DOMAIN f) \ {k} |-> f[x]]

SeqToSet(s) == {s[i] : i \in DOMAIN s}

----------------------------------------------------------------------------
(* nbdns.Config values received from Management *)

RootZone == "."

UDPNameServerType == "udp"
DefaultClass == "IN"

NS(ip, t) == [IP |-> ip, NSType |-> t, Port |-> 53]

Group(nss, primary, domains) ==
    [NameServers |-> nss, Primary |-> primary, Domains |-> domains]

Rec(name) == [Name |-> name, Type |-> 1, Class |-> DefaultClass, RData |-> "10.0.0.1"]

Zone(domain, records) == [Domain |-> domain, Records |-> records]

Cfg(enable, groups, zones) ==
    [ServiceEnable |-> enable, NameServerGroups |-> groups, CustomZones |-> zones]

CfgEmpty == Cfg(TRUE, <<>>, <<>>)

CfgMixed ==
    Cfg(TRUE,
        <<Group(<<NS("1.1.1.1", "udp")>>, TRUE, <<>>),
          Group(<<NS("10.0.0.2", "tcp"), NS("10.0.0.3", "udp")>>, FALSE, <<"a.", "b.">>)>>,
        <<Zone("c.", <<Rec("h.c.")>>)>>)

\* the two groups of CfgTie claim the same domain; CfgTieRev lists them reversed
CfgTie ==
    Cfg(FALSE,
        <<Group(<<NS("10.0.0.2", "udp")>>, FALSE, <<"a.">>),
          Group(<<NS("10.0.0.3", "udp")>>, FALSE, <<"a.", "b.">>)>>,
        <<>>)

CfgTieRev ==
    Cfg(FALSE,
        <<Group(<<NS("10.0.0.3", "udp")>>, FALSE, <<"a.", "b.">>),
          Group(<<NS("10.0.0.2", "udp")>>, FALSE, <<"a.">>)>>,
        <<>>)

\* a configuration that fails validation: a non primary group without domains
CfgNoDomains ==
    Cfg(TRUE,
        <<Group(<<NS("1.1.1.1", "udp")>>, TRUE, <<>>),
          Group(<<NS("10.0.0.2", "udp")>>, FALSE, <<>>)>>,
        <<>>)

Configs == {CfgMixed, CfgTie, CfgTieRev, CfgNoDomains}

HostLists == {<<"bogus", "::1">>}

----------------------------------------------------------------------------
(* Pure functions of the DNS server *)

\* hashstructure.Hash with SlicesAsSets: every slice is hashed as the set of
\* its elements, so the order of groups, nameservers, domains, zones and
\* records does not reach the hash.  The zero hash (the initial
\* previousConfigHash) is <<>>.
HashGroup(g) ==
    [NameServers |-> SeqToSet(g.NameServers), Primary |-> g.Primary,
     Domains |-> SeqToSet(g.Domains)]

HashZone(z) == [Domain |-> z.Domain, Records |-> SeqToSet(z.Records)]

Hash(update) ==
    << [ServiceEnable |-> update.ServiceEnable,
        NameServerGroups |-> {HashGroup(update.NameServerGroups[i]) :
                                 i \in DOMAIN update.NameServerGroups},
        CustomZones |-> {HashZone(update.CustomZones[i]) :
                                 i \in DOMAIN update.CustomZones}] >>

ZeroHash == <<>>

\* fmt.Sprintf("%s:%d", ns.IP.String(), ns.Port)
getNSHostPort(ns) == [host |-> ns.IP, bracket |-> FALSE, port |-> ns.Port]

\* netip.ParseAddr on the host's DNS addresses
ParseAddr(ua) ==
    CASE ua = "8.8.8.8" -> "v4"
      [] ua = "::1" -> "v6"
      [] OTHER -> "invalid"

EmptyServer == [host |-> "", bracket |-> FALSE, port |-> 0]

\* one element of handler.upstreamServers in addHostRootZone
hostUpstream(ua) ==
    IF ParseAddr(ua) = "invalid" THEN EmptyServer
    ELSE [host |-> ua, bracket |-> ParseAddr(ua) # "v4", port |-> 53]

\* buildRecordKey(record.Name, class, uint16(record.Type))
buildRecordKey(record) == [name |-> record.Name, class |-> 1, type |-> record.Type]

\* dnsConfigToHostDNSConfig: the host configuration of an update
RECURSIVE groupDomains(_, _)
groupDomains(groups, i) ==
    IF i > Len(groups) THEN <<>>
    ELSE (IF Len(groups[i].NameServers) = 0 THEN <<>>
          ELSE [j \in 1..Len(groups[i].Domains) |->
                   [Domain |-> groups[i].Domains[j], Disabled |-> FALSE,
                    MatchOnly |-> TRUE]])
         \o groupDomains(groups, i + 1)

dnsConfigToHostDNSConfig(update) ==
    [RouteAll |-> \E i \in DOMAIN update.NameServerGroups :
                     /\ Len(update.NameServerGroups[i].NameServers) > 0
                     /\ update.NameServerGroups[i].Primary,
     Domains |-> groupDomains(update.NameServerGroups, 1)
                 \o [j \in 1..Len(update.CustomZones) |->
                       [Domain |-> update.CustomZones[j].Domain,
                        Disabled |-> FALSE, MatchOnly |-> FALSE]]]

EmptyHostConfig == [RouteAll |-> FALSE, Domains |-> <<>>]

----------------------------------------------------------------------------
(* Handlers.  Handler 0 is the local resolver; the upstream resolvers are   *)
(* numbered from 1 in the order newUpstreamResolver creates them.           *)

LocalResolver == 0

NoGroup == Group(<<>>, FALSE, <<>>)

\* a new resolver: besides the fields of upstreamResolverBase and the
\* removeIndex of its callbacks, the position of its probe loop (loop), the
\* number of probe loops running (loops), the number of deactivate calls not
\* yet followed by a reactivate call (pending), whether the counter has
\* reached the threshold since the last successful probe (crossed), and the
\* currentConfig and mux found by its last deactivate call (before)
newUpstreamResolver(kind, servers, group) ==
    [kind |-> kind, upstreamServers |-> servers, nsGroup |-> group,
     stopped |-> FALSE, disabled |-> FALSE, failsCount |-> 0,
     loop |-> "none", removeIndex |-> EmptyMap,
     loops |-> 0, pending |-> 0, crossed |-> FALSE,
     before |-> [currentConfig |-> EmptyHostConfig, serviceMux |-> EmptyMap]]

\* handlerWithStop.stop(): cancels an upstream resolver's context; the local
\* resolver has nothing to stop
stop(hs, id) == IF id = LocalResolver THEN hs ELSE [hs EXCEPT ![id].stopped = TRUE]

Op(name, zone, id) == [op |-> name, zone |-> zone, h |-> id]

----------------------------------------------------------------------------
(* Building the handler set of an update *)

\* buildLocalHandlerUpdate: the custom zones become mux updates served by the
\* local resolver, their records the local records; an empty record list or
\* a record of another class is an error
RECURSIVE zoneRecords(_, _, _)
zoneRecords(records, j, acc) ==
    IF j > Len(records) THEN acc
    ELSE zoneRecords(records, j + 1, Put(acc, buildRecordKey(records[j]), records[j]))

RECURSIVE buildLocalLoop(_, _, _, _)
buildLocalLoop(customZones, i, mu, recs) ==
    IF i > Len(customZones) THEN [err |-> FALSE, muxUpdates |-> mu, localRecords |-> recs]
    ELSE LET z == customZones[i] IN
         IF Len(z.Records) = 0
         THEN [err |-> TRUE, muxUpdates |-> <<>>, localRecords |-> EmptyMap]
         ELSE IF \E j \in DOMAIN z.Records : z.Records[j].Class # DefaultClass
         THEN [err |-> TRUE, muxUpdates |-> <<>>, localRecords |-> EmptyMap]
         ELSE buildLocalLoop(customZones, i + 1,
                             Append(mu, [domain |-> z.Domain, handler |-> LocalResolver]),
                             zoneRecords(z.Records, 1, recs))

buildLocalHandlerUpdate(customZones) == buildLocalLoop(customZones, 1, <<>>, EmptyMap)

\* the UDP nameservers of a group, as host:port, in list order
\* the nameservers of a group from the i-th on, whatever their type
udpServersAny(nss, i) ==
    [k \in 1..(Len(nss) + 1 - i) |-> getNSHostPort(nss[k + i - 1])]

RECURSIVE udpServers(_, _)
udpServers(nss, i) ==
    IF i > Len(nss) THEN <<>>
    ELSE (IF nss[i].NSType # UDPNameServerType THEN <<>> ELSE <<getNSHostPort(nss[i])>>)
         \o udpServers(nss, i + 1)

\* buildUpstreamHandlerUpdate: one new upstream resolver per group that has
\* nameservers.  hs is the handler table, mu the mux updates so far, ops the
\* calls made so far.
RECURSIVE buildUpstreamLoop(_, _, _, _, _)
buildUpstreamLoop(groups, i, hs, mu, ops) ==
    IF i > Len(groups) THEN [err |-> FALSE, handlers |-> hs, muxUpdates |-> mu, ops |-> ops]
    ELSE LET g == groups[i]
             id == Len(hs) + 1
             h == newUpstreamResolver("group", udpServers(g.NameServers, 1), g)
             hs1 == Append(hs, h)
             stopped == stop(hs1, id)
             stopOps == Append(ops, Op("stop", "", id))
         IN
         IF Len(g.NameServers) = 0 THEN buildUpstreamLoop(groups, i + 1, hs, mu, ops)
         ELSE IF Len(h.upstreamServers) = 0
         THEN buildUpstreamLoop(groups, i + 1, stopped, mu, stopOps)
         ELSE IF g.Primary
         THEN buildUpstreamLoop(groups, i + 1, hs1,
                                Append(mu, [domain |-> RootZone, handler |-> id]), ops)
         ELSE IF Len(g.Domains) = 0
         THEN [err |-> TRUE, handlers |-> stopped, muxUpdates |-> <<>>, ops |-> stopOps]
         ELSE IF \E j \in DOMAIN g.Domains : g.Domains[j] = ""
         THEN [err |-> TRUE, handlers |-> stopped, muxUpdates |-> <<>>, ops |-> stopOps]
         ELSE buildUpstreamLoop(groups, i + 1, hs1,
                                mu \o [j \in 1..Len(g.Domains) |->
                                          [domain |-> g.Domains[j], handler |-> id]],
                                ops)

buildUpstreamHandlerUpdate(nameServerGroups, hs) ==
    buildUpstreamLoop(nameServerGroups, 1, hs, <<>>, <<>>)

----------------------------------------------------------------------------
(* updateMux.  st is [handlers, serviceMux, ops]. *)

\* addHostRootZone: a new upstream resolver for the host's DNS addresses is
\* registered for the root zone (and is not entered in dnsMuxMap)
addHostRootZone(st, hostList) ==
    LET id == Len(st.handlers) + 1
        h == newUpstreamResolver("host", [n \in 1..Len(hostList) |-> hostUpstream(hostList[n])],
                                 NoGroup)
    IN [handlers |-> Append(st.handlers, h),
        serviceMux |-> Put(st.serviceMux, RootZone, id),
        ops |-> Append(st.ops, Op("RegisterMux", RootZone, id))]

\* first loop of updateMux: register every update, stop the handler that was
\* tracked for its zone
\* registration that leaves the handler tracked for the zone running
registerOneNoStop(st, u, old) ==
    [handlers |-> st.handlers,
     serviceMux |-> Put(st.serviceMux, u.domain, u.handler),
     ops |-> Append(st.ops, Op("RegisterMux", u.domain, u.handler))]

registerOne(st, u, old) ==
    LET reg == [handlers |-> st.handlers,
                serviceMux |-> Put(st.serviceMux, u.domain, u.handler),
                ops |-> Append(st.ops, Op("RegisterMux", u.domain, u.handler))]
    IN IF u.domain \in DOMAIN old
       THEN [reg EXCEPT !.handlers = stop(reg.handlers, old[u.domain]),
                        !.ops = Append(reg.ops, Op("stop", u.domain, old[u.domain]))]
       ELSE reg

RECURSIVE registerLoop(_, _, _, _, _)
registerLoop(muxUpdates, i, st, muxUpdateMap, old) ==
    IF i > Len(muxUpdates) THEN [st |-> st, muxUpdateMap |-> muxUpdateMap]
    ELSE registerLoop(muxUpdates, i + 1, registerOne(st, muxUpdates[i], old),
                      Put(muxUpdateMap, muxUpdates[i].domain, muxUpdates[i].handler), old)

\* the root fallback in the other order: the old root handler is stopped and
\* the zone deregistered before the host fallback is registered
rootFallbackStopFirst(st, key, existingHandler, hostList) ==
    addHostRootZone([handlers |-> stop(st.handlers, existingHandler),
                     serviceMux |-> Del(st.serviceMux, key),
                     ops |-> st.ops \o <<Op("stop", key, existingHandler),
                                         Op("DeregisterMux", key, -1)>>],
                    hostList)

\* the root zone is removed and the update has no root: host fallback first,
\* then the old handler is stopped
rootFallback(st, key, existingHandler, hostList) ==
    LET added == addHostRootZone(st, hostList)
    IN [added EXCEPT !.handlers = stop(added.handlers, existingHandler),
                     !.ops = Append(added.ops, Op("stop", key, existingHandler))]

\* a removed zone whose handler is stopped but which stays registered
removeZoneKeep(st, key, existingHandler) ==
    [handlers |-> stop(st.handlers, existingHandler),
     serviceMux |-> st.serviceMux,
     ops |-> Append(st.ops, Op("stop", key, existingHandler))]

\* any other zone that is removed: its handler is stopped, the zone deregistered
removeZone(st, key, existingHandler) ==
    [handlers |-> stop(st.handlers, existingHandler),
     serviceMux |-> Del(st.serviceMux, key),
     ops |-> st.ops \o <<Op("stop", key, existingHandler), Op("DeregisterMux", key, -1)>>]

\* second loop of updateMux, over the zones of the old dnsMuxMap.  Go ranges
\* over the map in no fixed order; the steps of distinct zones commute, and
\* the model takes the zones in the order CHOOSE picks.
RECURSIVE removeLoop(_, _, _, _, _, _)
removeLoop(keys, st, muxUpdateMap, old, isContainRootUpdate, hostList) ==
    IF keys = {} THEN st
    ELSE LET key == CHOOSE k \in keys : TRUE
             st1 == IF key \in DOMAIN muxUpdateMap THEN st
                    ELSE IF ~isContainRootUpdate /\ key = RootZone
                    THEN rootFallback(st, key, old[key], hostList)
                    ELSE removeZone(st, key, old[key])
         IN removeLoop(keys \ {key}, st1, muxUpdateMap, old, isContainRootUpdate, hostList)

updateMux(muxUpdates, st, old, hostList) ==
    LET first == registerLoop(muxUpdates, 1, st, EmptyMap, old)
        isContainRootUpdate == \E i \in DOMAIN muxUpdates : muxUpdates[i].domain = RootZone
    IN [st |-> removeLoop(DOMAIN old, first.st, first.muxUpdateMap, old,
                          isContainRootUpdate, hostList),
        dnsMuxMap |-> first.muxUpdateMap]

----------------------------------------------------------------------------
(* applyConfiguration, as a function of the server's state *)

\* an error return that has already dropped the local records
UnchangedButRecords(err, listen, hs, ops) ==
    [err |-> err, listening |-> listen, handlers |-> hs, ops |-> ops,
     serviceMux |-> serviceMux, dnsMuxMap |-> dnsMuxMap,
     localRecords |-> EmptyMap, currentConfig |-> currentConfig,
     hostDNS |-> hostDNS]

Unchanged(err, listen, hs, ops) ==
    [err |-> err, listening |-> listen, handlers |-> hs, ops |-> ops,
     serviceMux |-> serviceMux, dnsMuxMap |-> dnsMuxMap,
     localRecords |-> localRecords, currentConfig |-> currentConfig,
     hostDNS |-> hostDNS]

\* the configuration handed to the host manager: without support for the
\* custom port the primary DNS setup is dropped
hostUpdateOf(config) ==
    IF portUnsupported THEN [config EXCEPT !.RouteAll = FALSE] ELSE config

Applied(config) == [state |-> "applied", RouteAll |-> config.RouteAll, Domains |-> config.Domains]

applyConfiguration(update) ==
    LET listen == IF update.ServiceEnable THEN TRUE
                  ELSE IF ~permanent THEN FALSE ELSE listening
        svcOps == IF update.ServiceEnable THEN <<Op("Listen", "", -1)>>
                  ELSE IF ~permanent THEN <<Op("ServiceStop", "", -1)>> ELSE <<>>
        local == buildLocalHandlerUpdate(update.CustomZones)
        up == buildUpstreamHandlerUpdate(update.NameServerGroups, handlers)
    IN
    IF local.err THEN Unchanged(TRUE, listen, handlers, svcOps)
    ELSE IF up.err THEN Unchanged(TRUE, listen, up.handlers, svcOps \o up.ops)
    ELSE LET muxUpdates == local.muxUpdates \o up.muxUpdates
             m == updateMux(muxUpdates,
                            [handlers |-> up.handlers, serviceMux |-> serviceMux,
                             ops |-> svcOps \o up.ops],
                            dnsMuxMap, hostsDnsList)
             config == dnsConfigToHostDNSConfig(update)
             notify == IF permanent THEN <<Op("onNewSearchDomains", "", -1)>> ELSE <<>>
         IN [err |-> FALSE, listening |-> listen, handlers |-> m.st.handlers,
             ops |-> m.st.ops \o <<Op("applyDNSConfig", "", -1)>> \o notify,
             serviceMux |-> m.st.serviceMux, dnsMuxMap |-> m.dnsMuxMap,
             localRecords |-> local.localRecords, currentConfig |-> config,
             hostDNS |-> Applied(hostUpdateOf(config))]

----------------------------------------------------------------------------
(* The operations of DefaultServer *)

\* the record of a completed operation: for UpdateDNSServer its serial, the
\* updateSerial it read in its serial test, whether its configuration hashed
\* like previousConfigHash, and how it returned
Done(op, serial, seen, same, result) ==
    [op |-> op, serial |-> serial, seen |-> seen, same |-> same, result |-> result]

\* Initialize: sets the host manager once; a permanent server starts to listen
Initialize ==
    /\ ~hostManager
    /\ hostManager' = TRUE
    /\ listening' = IF permanent THEN TRUE ELSE listening
    /\ last' = Done("Initialize", 0, 0, FALSE, "ok")
    /\ lastOps' = IF permanent THEN <<Op("Listen", "", -1)>> ELSE <<>>
    /\ UNCHANGED <<updateSerial, previousConfigHash, currentConfig, dnsMuxMap,
                   serviceMux, localRecords, ctxDone, permanent, hostsDnsList,
                   portUnsupported, handlers, hostDNS, pc, call, nCalls,
                   installedSerial, nHostUpdates>>

\* Stop: cancels the server's context, restores the host DNS, stops the
\* service; the engine stops its server once
Stop ==
    /\ ~ctxDone
    /\ ctxDone' = TRUE
    /\ hostDNS' = IF hostManager THEN [state |-> "restored", RouteAll |-> FALSE, Domains |-> <<>>]
                  ELSE hostDNS
    /\ listening' = FALSE
    /\ last' = Done("Stop", 0, 0, FALSE, "ok")
    /\ lastOps' = (IF hostManager THEN <<Op("restoreHostDNS", "", -1)>> ELSE <<>>)
                  \o <<Op("ServiceStop", "", -1)>>
    /\ UNCHANGED <<updateSerial, previousConfigHash, currentConfig, dnsMuxMap,
                   serviceMux, localRecords, hostManager, permanent, hostsDnsList,
                   portUnsupported, handlers, pc, call, nCalls, installedSerial,
                   nHostUpdates>>

\* OnUpdatedHostDNSServer: remembers the host's DNS addresses and, unless a
\* root zone is tracked, serves the root zone from them.  Only the permanent
\* (mobile) server is published to the callers of this operation.
OnUpdatedHostDNSServer(list) ==
    /\ permanent
    /\ nHostUpdates < MaxHostUpdates
    /\ nHostUpdates' = nHostUpdates + 1
    /\ hostsDnsList' = list
    /\ LET st == IF RootZone \in DOMAIN dnsMuxMap
                 THEN [handlers |-> handlers, serviceMux |-> serviceMux, ops |-> <<>>]
                 ELSE addHostRootZone([handlers |-> handlers, serviceMux |-> serviceMux,
                                       ops |-> <<>>], list)
       IN /\ handlers' = st.handlers
          /\ serviceMux' = st.serviceMux
          /\ lastOps' = st.ops
    /\ last' = Done("OnUpdatedHostDNSServer", 0, 0, FALSE, "ok")
    /\ UNCHANGED <<updateSerial, previousConfigHash, currentConfig, dnsMuxMap,
                   localRecords, hostManager, ctxDone, permanent, portUnsupported,
                   listening, hostDNS, pc, call, nCalls, installedSerial>>

\* the hash test against the zero hash instead of the previous one
sameConfigNever(previous, hash) == hash = ZeroHash

\* the hash test of UpdateDNSServer
sameConfig(previous, hash) == previous = hash

\* the serial test as "not after" instead of "before"
isBehindOrEqual(serial, stored) == serial <= stored

\* the serial test of UpdateDNSServer
isBehind(serial, stored) == serial < stored

\* UpdateDNSServer up to the point where it waits for s.mux: the context and
\* the serial are tested before the mutex is taken
UpdateEnter(c, serial, update) ==
    /\ pc[c] = "idle"
    /\ nCalls' = nCalls + 1
    /\ IF ctxDone
       THEN /\ last' = Done("UpdateDNSServer", serial, updateSerial, sameConfig(previousConfigHash, Hash(update)), "closed")
            /\ lastOps' = <<>>
            /\ UNCHANGED <<pc, call>>
       ELSE IF isBehind(serial, updateSerial)
       THEN /\ last' = Done("UpdateDNSServer", serial, updateSerial, sameConfig(previousConfigHash, Hash(update)), "behind")
            /\ lastOps' = <<>>
            /\ UNCHANGED <<pc, call>>
       ELSE /\ pc' = [pc EXCEPT ![c] = "lock"]
            /\ call' = [call EXCEPT ![c] = [serial |-> serial, update |-> update,
                                             seen |-> updateSerial]]
            /\ UNCHANGED <<last, lastOps>>
    /\ UNCHANGED <<updateSerial, previousConfigHash, currentConfig, dnsMuxMap,
                   serviceMux, localRecords, hostManager, ctxDone, permanent,
                   hostsDnsList, listening, portUnsupported, handlers, hostDNS,
                   installedSerial, nHostUpdates>>

\* a call of UpdateDNSServer, as long as the model admits one more
UpdateCheck(c, serial, update) == nCalls < MaxCalls /\ UpdateEnter(c, serial, update)

NoCall == [serial |-> 0, update |-> CfgEmpty, seen |-> 0]

\* UpdateDNSServer under s.mux, from the position at of caller c to its return
UpdateFrom(c, at) ==
    /\ pc[c] = at
    /\ pc' = [pc EXCEPT ![c] = "idle"]
    /\ call' = [call EXCEPT ![c] = NoCall]
    /\ LET serial == call[c].serial
           update == call[c].update
           hash == Hash(update)
           r == applyConfiguration(update)
       IN
       IF ~hostManager
       THEN /\ last' = Done("UpdateDNSServer", serial, call[c].seen, sameConfig(previousConfigHash, hash), "uninitialized")
            /\ lastOps' = <<>>
            /\ UNCHANGED <<updateSerial, previousConfigHash, currentConfig, dnsMuxMap,
                           serviceMux, localRecords, listening, handlers, hostDNS,
                           installedSerial>>
       ELSE IF sameConfig(previousConfigHash, hash)
       THEN /\ updateSerial' = serial
            /\ last' = Done("UpdateDNSServer", serial, call[c].seen, sameConfig(previousConfigHash, hash), "same")
            /\ lastOps' = <<>>
            /\ UNCHANGED <<previousConfigHash, currentConfig, dnsMuxMap,
                           serviceMux, localRecords, listening, handlers, hostDNS,
                           installedSerial>>
       ELSE /\ listening' = r.listening
            /\ handlers' = r.handlers
            /\ serviceMux' = r.serviceMux
            /\ dnsMuxMap' = r.dnsMuxMap
            /\ localRecords' = r.localRecords
            /\ currentConfig' = r.currentConfig
            /\ hostDNS' = r.hostDNS
            /\ lastOps' = r.ops
            /\ IF r.err
               THEN /\ last' = Done("UpdateDNSServer", serial, call[c].seen, sameConfig(previousConfigHash, hash), "invalid")
                    /\ UNCHANGED <<updateSerial, previousConfigHash, installedSerial>>
               ELSE /\ last' = Done("UpdateDNSServer", serial, call[c].seen, sameConfig(previousConfigHash, hash), "applied")
                    /\ updateSerial' = serial
                    /\ previousConfigHash' = hash
                    /\ installedSerial' = serial
    /\ UNCHANGED <<hostManager, ctxDone, permanent, hostsDnsList, portUnsupported,
                   nCalls, nHostUpdates>>

\* UpdateDNSServer from the point where it waits for s.mux to its return
UpdateLocked(c) == UpdateFrom(c, "lock")

----------------------------------------------------------------------------
(* The DNS server: construction and next-state relation *)

InitialHostList == <<"8.8.8.8">>

\* the server after construction; unsupported tells whether the service runs on
\* a custom port that the host manager cannot be pointed at
InitAt(unsupported) ==
    /\ updateSerial = 0
    /\ previousConfigHash = ZeroHash
    /\ currentConfig = EmptyHostConfig
    /\ dnsMuxMap = EmptyMap
    /\ localRecords = EmptyMap
    /\ hostManager = FALSE
    /\ ctxDone = FALSE
    /\ permanent \in BOOLEAN
    /\ portUnsupported = unsupported
    /\ listening = FALSE
    /\ hostDNS = [state |-> "untouched", RouteAll |-> FALSE, Domains |-> <<>>]
    /\ LET st == IF permanent
                 THEN addHostRootZone([handlers |-> <<>>, serviceMux |-> EmptyMap,
                                       ops |-> <<>>], InitialHostList)
                 ELSE [handlers |-> <<>>, serviceMux |-> EmptyMap, ops |-> <<>>]
       IN /\ handlers = st.handlers
          /\ serviceMux = st.serviceMux
          /\ hostsDnsList = IF permanent THEN InitialHostList ELSE <<>>
    /\ pc = [c \in Callers |-> "idle"]
    /\ call = [c \in Callers |-> NoCall]
    /\ nCalls = 0
    /\ nHostUpdates = 0
    /\ last = Done("New", 0, 0, FALSE, "ok")
    /\ lastOps = <<>>
    /\ installedSerial = 0

Init == InitAt(FALSE)

\* a ServeDNS goroutine that has just been handed a query for resolver h
NewQuery(h) == [pc |-> "enter", h |-> h, idx |-> 0, contacted |-> <<>>, wrote |-> FALSE]

InitQueries == queries = EmptyBag

NotIOS == ios = FALSE

\* contextState: Set replaces the status and clears the wrapped error, Wrap
\* keeps an error, Status returns the wrapped error when there is one
Set(st, status) == [status |-> status, err |-> "nil"]

Wrap(st, err) == [st EXCEPT !.err = err]

Status(st) ==
    IF st.err # "nil" THEN [status |-> "", err |-> st.err]
    ELSE [status |-> st.status, err |-> "nil"]

NewClient ==
    [pc |-> "init", attempts |-> 0, steps |-> <<>>, err |-> "nil", ret |-> "nil",
     denied |-> FALSE, started |-> FALSE, mgmClient |-> FALSE,
     signalClient |-> FALSE, engine |-> "none", engineCtx |-> "none"]

\* the daemon starts runClient with the status Idle and no error
InitClient ==
    /\ state = [status |-> "Idle", err |-> "nil"]
    /\ client = NewClient
    /\ recorder = [management |-> FALSE, signal |-> FALSE, client |-> "new"]
    /\ runCtx = "live"

Next ==
    \/ Initialize /\ UNCHANGED <<resolverVars, clientVars, observed, management, firewall, daemon>>
    \/ Stop /\ UNCHANGED <<resolverVars, clientVars, observed, management, firewall, daemon>>
    \/ \E list \in HostLists : OnUpdatedHostDNSServer(list) /\ UNCHANGED <<resolverVars, clientVars, observed, management, firewall, daemon>>
    \/ \E c \in Callers, serial \in Serials, update \in Configs :
          UpdateCheck(c, serial, update) /\ UNCHANGED <<resolverVars, clientVars, observed, management, firewall, daemon>>
    \/ \E c \in Callers : UpdateLocked(c) /\ UNCHANGED <<resolverVars, clientVars, observed, management, firewall, daemon>>

\* no update sequence has been observed yet
InitObserved == observed = <<>>

\* the account manager, the routing firewall and the daemon's Server are not
\* in use
InitElsewhere == management = "none" /\ firewall = "none" /\ daemon = "none"

InitServer == Init /\ InitQueries /\ NotIOS /\ InitClient /\ InitObserved /\ InitElsewhere

Spec == InitServer /\ [][Next]_vars

----------------------------------------------------------------------------
(* Properties of UpdateDNSServer *)

\* a step in which caller c's UpdateDNSServer runs under s.mux and returns
LockedStep(c) == pc[c] = "lock" /\ pc'[c] = "idle"

\* C1: across any interleaving of UpdateDNSServer calls the stored
\* updateSerial never decreases, and the installed configuration never goes
\* back to that of an earlier serial.
C1_SerialNeverDecreases ==
    [][updateSerial' >= updateSerial /\ installedSerial' >= installedSerial]_vars

\* C2 as stated: whatever its serial, a call on an initialised, open server
\* whose configuration hashes like the last applied one leaves updateSerial
\* equal to its serial.
C2_AnySerialStored ==
    (/\ last.op = "UpdateDNSServer"
     /\ last.same
     /\ last.result \notin {"closed", "uninitialized"})
    => updateSerial = last.serial

\* C2, amended: a call that is not behind the stored serial (so that it
\* reaches the hash comparison) and whose configuration hashes like
\* previousConfigHash makes no call to the service, the host manager or a
\* handler, leaves the mux, the handler map, the local records and
\* currentConfig as they are, and stores its serial.
C2_SameHashNoOSCalls ==
    [][\A c \in Callers :
          (LockedStep(c) /\ hostManager /\ Hash(call[c].update) = previousConfigHash)
          => /\ lastOps' = <<>>
             /\ UNCHANGED <<serviceMux, dnsMuxMap, localRecords, currentConfig,
                            hostDNS, listening, handlers, previousConfigHash>>
             /\ updateSerial' = call[c].serial]_vars

\* a reordered configuration was skipped after a real one had been applied
C2_Witness ==
    /\ last.op = "UpdateDNSServer"
    /\ last.result = "same"
    /\ updateSerial = last.serial
    /\ last.serial > last.seen
    /\ hostDNS.state = "applied"
    /\ dnsMuxMap # EmptyMap

\* C3 as stated: a call whose serial is less than or equal to the serial
\* stored when the call tests it is not applied.
C3_NotAfterIgnored ==
    (last.op = "UpdateDNSServer" /\ last.serial <= last.seen)
    => last.result # "applied"

\* C3, amended: a call whose serial is strictly less than the updateSerial it
\* reads in its serial test returns there and changes nothing; a call whose
\* serial is equal to or greater than it is never rejected as behind.
C3_BehindIgnored ==
    [][nCalls' = nCalls + 1 =>
          /\ \A c \in Callers :
                pc'[c] # pc[c] => /\ call'[c].serial >= updateSerial
                                  /\ ~ctxDone
          /\ (pc' = pc /\ ~ctxDone) =>
                /\ last'.result = "behind"
                /\ last'.serial < updateSerial
                /\ lastOps' = <<>>
                /\ UNCHANGED <<serviceMux, dnsMuxMap, localRecords, currentConfig,
                               hostDNS, listening, handlers, previousConfigHash,
                               updateSerial>>]_vars

\* a call behind the stored serial has just been rejected
C3_Witness ==
    /\ last.op = "UpdateDNSServer"
    /\ last.result = "behind"
    /\ last.serial < updateSerial
    /\ hostDNS.state = "applied"

----------------------------------------------------------------------------
(* Properties of updateMux *)

\* the mux after the first k calls of a list of calls
RECURSIVE ReplayMux(_, _, _)
ReplayMux(mux, ops, k) ==
    IF k = 0 THEN mux
    ELSE LET m == ReplayMux(mux, ops, k - 1)
             o == ops[k]
         IN IF o.op = "RegisterMux" THEN Put(m, o.zone, o.h)
            ELSE IF o.op = "DeregisterMux" THEN Del(m, o.zone)
            ELSE m

\* position of the first call equal to o, 0 if there is none
FirstIndex(ops, o) ==
    IF \E i \in DOMAIN ops : ops[i] = o
    THEN CHOOSE i \in DOMAIN ops : ops[i] = o /\ \A j \in 1..(i - 1) : ops[j] # o
    ELSE 0

\* an update that tracked the root zone before and does not track it after
RootFallbackStep(c) ==
    /\ LockedStep(c)
    /\ last'.result = "applied"
    /\ RootZone \in DOMAIN dnsMuxMap
    /\ RootZone \notin DOMAIN dnsMuxMap'

HasUDP(g) == \E n \in DOMAIN g.NameServers : g.NameServers[n].NSType = UDPNameServerType

CandidateZones(update) ==
    {update.CustomZones[i].Domain : i \in DOMAIN update.CustomZones}
    \cup {RootZone : i \in {j \in DOMAIN update.NameServerGroups :
                              /\ HasUDP(update.NameServerGroups[j])
                              /\ update.NameServerGroups[j].Primary}}
    \cup UNION {SeqToSet(update.NameServerGroups[i].Domains) :
                  i \in {j \in DOMAIN update.NameServerGroups :
                           /\ HasUDP(update.NameServerGroups[j])
                           /\ ~update.NameServerGroups[j].Primary}}

Stopped(hs, id) == id = LocalResolver \/ hs[id].stopped

\* C10: after a successful update that was not skipped, dnsMuxMap tracks
\* exactly the candidate zones, each registered with its tracked handler;
\* every zone tracked before and absent from the candidates had its handler
\* stopped and was deregistered (the root zone falls back to the host
\* instead); every handler tracked before for a candidate zone was stopped.
C10_UpdateMuxExact ==
    [][\A c \in Callers :
          (LockedStep(c) /\ last'.result = "applied") =>
             LET cand == CandidateZones(call[c].update) IN
             /\ DOMAIN dnsMuxMap' = cand
             /\ \A z \in cand : z \in DOMAIN serviceMux' /\ serviceMux'[z] = dnsMuxMap'[z]
             /\ \A z \in (DOMAIN dnsMuxMap) \ cand :
                   /\ Stopped(handlers', dnsMuxMap[z])
                   /\ \E i \in DOMAIN lastOps' : lastOps'[i] = Op("stop", z, dnsMuxMap[z])
                   /\ IF z = RootZone
                      THEN handlers'[serviceMux'[z]].kind = "host"
                      ELSE /\ z \notin DOMAIN serviceMux'
                           /\ \E i \in DOMAIN lastOps' : lastOps'[i] = Op("DeregisterMux", z, -1)
             /\ \A z \in (DOMAIN dnsMuxMap) \cap cand :
                   /\ Stopped(handlers', dnsMuxMap[z])
                   /\ dnsMuxMap'[z] # dnsMuxMap[z] \/ dnsMuxMap[z] = LocalResolver
                   /\ \E i \in DOMAIN lastOps' : lastOps'[i] = Op("stop", z, dnsMuxMap[z])]_vars

\* the last update removed a tracked zone and re-registered another one whose
\* previous upstream handler it stopped
C10_Witness ==
    /\ last.result = "applied"
    /\ \E i \in DOMAIN lastOps : lastOps[i].op = "DeregisterMux"
    /\ \E j \in DOMAIN lastOps :
          /\ lastOps[j].op = "stop"
          /\ lastOps[j].zone \in DOMAIN dnsMuxMap
          /\ lastOps[j].h # LocalResolver
          /\ handlers[lastOps[j].h].stopped
          /\ dnsMuxMap[lastOps[j].zone] # lastOps[j].h

----------------------------------------------------------------------------
(* The upstream resolver: ServeDNS, checkUpstreamFails, waitUntilResponse   *)
(* and the deactivate / reactivate callbacks the server gives it            *)

failsTillDeact == 5

\* u.ctx.Done(): the resolver's context derives from the server's
CtxDone(h) == ctxDone \/ handlers[h].stopped

\* what upstreamClient.exchange can return: a response, a timeout, another
\* error, or no usable message (rm == nil or !rm.Response)
Outcomes == {"ok", "timeout", "error", "noresponse"}

\* an upstream entry that is no address can only fail to be dialled
OutcomesOf(upstream) == IF upstream = EmptyServer THEN {"error"} ELSE Outcomes

\* the error test that lets ServeDNS go on to the next upstream, widened to
\* every error
isTimeoutOrError(outcome) == outcome \in {"timeout", "error"}

\* err == context.DeadlineExceeded || isTimeout(err)
isTimeout(outcome) == outcome = "timeout"

\* failsCount.Add(1); crossed remembers that the counter reached the threshold
Add1(h) ==
    [h EXCEPT !.failsCount = @ + 1,
              !.crossed = @ \/ h.failsCount + 1 >= failsTillDeact]

\* the guard of checkUpstreamFails without the test of u.disabled
overThreshold(h) == h.failsCount >= failsTillDeact

\* the guard of checkUpstreamFails with a threshold of one failure
mustDeactivateEarly(h) == h.failsCount >= 1 /\ ~h.disabled

\* the guard of checkUpstreamFails: the counter is at the threshold and the
\* resolver is not disabled
mustDeactivate(h) == h.failsCount >= failsTillDeact /\ ~h.disabled

\* the deactivate callback of a nameserver group.  Indexes are 1-based, -1
\* marks a domain that was not found in currentConfig.
RECURSIVE deactivateLoop(_, _, _, _, _)
deactivateLoop(i, config, mux, removeIndex, ops) ==
    IF i > Len(config.Domains)
    THEN [currentConfig |-> config, serviceMux |-> mux, removeIndex |-> removeIndex,
          ops |-> Append(ops, Op("applyDNSConfig", "", -1))]
    ELSE LET d == config.Domains[i].Domain IN
         IF d \in DOMAIN removeIndex
         THEN deactivateLoop(i + 1, [config EXCEPT !.Domains[i].Disabled = TRUE],
                             Del(mux, d), Put(removeIndex, d, i),
                             Append(ops, Op("DeregisterMux", d, -1)))
         ELSE deactivateLoop(i + 1, config, mux, removeIndex, ops)

\* a deactivate callback that leaves RouteAll as it is
deactivateKeepRoute(h, config, mux) ==
    IF h.kind = "host"
    THEN [currentConfig |-> config, serviceMux |-> mux, removeIndex |-> h.removeIndex,
          ops |-> <<>>]
    ELSE LET g == h.nsGroup
             keys == SeqToSet(g.Domains) \cup (IF g.Primary THEN {RootZone} ELSE {})
         IN deactivateLoop(1, config, mux, [d \in keys |-> -1], <<>>)

deactivate(h, config, mux) ==
    IF h.kind = "host"
    THEN [currentConfig |-> config, serviceMux |-> mux, removeIndex |-> h.removeIndex,
          ops |-> <<>>]
    ELSE LET g == h.nsGroup
             keys == SeqToSet(g.Domains) \cup (IF g.Primary THEN {RootZone} ELSE {})
         IN deactivateLoop(1,
                           IF g.Primary THEN [config EXCEPT !.RouteAll = FALSE] ELSE config,
                           mux, [d \in keys |-> -1], <<>>)

\* the entries of removeIndex that reactivate restores
restorable(removeIndex, config) ==
    {d \in DOMAIN removeIndex :
        /\ removeIndex[d] # -1
        /\ removeIndex[d] <= Len(config.Domains)
        /\ config.Domains[removeIndex[d]].Domain = d}

\* the configuration part of reactivate
reactivateConfig(h, config) ==
    LET back == restorable(h.removeIndex, config) IN
    [RouteAll |-> IF h.nsGroup.Primary THEN TRUE ELSE config.RouteAll,
     Domains |-> [i \in DOMAIN config.Domains |->
                    IF /\ config.Domains[i].Domain \in back
                       /\ h.removeIndex[config.Domains[i].Domain] = i
                    THEN [config.Domains[i] EXCEPT !.Disabled = FALSE]
                    ELSE config.Domains[i]]]

RECURSIVE SetToSeq(_)
SetToSeq(S) ==
    IF S = {} THEN <<>>
    ELSE LET x == CHOOSE y \in S : TRUE IN <<x>> \o SetToSeq(S \ {x})

\* a reactivate callback that restores the configuration but not the mux
reactivateNoRegister(id, h, config, mux) ==
    IF h.kind = "host" THEN [currentConfig |-> config, serviceMux |-> mux, ops |-> <<>>]
    ELSE [currentConfig |-> reactivateConfig(h, config), serviceMux |-> mux,
          ops |-> <<Op("applyDNSConfig", "", -1)>>]

\* the reactivate callback of a nameserver group
reactivate(id, h, config, mux) ==
    IF h.kind = "host" THEN [currentConfig |-> config, serviceMux |-> mux, ops |-> <<>>]
    ELSE LET back == restorable(h.removeIndex, config)
             zones == SetToSeq(back)
         IN [currentConfig |-> reactivateConfig(h, config),
             serviceMux |-> [z \in DOMAIN mux \cup back |-> IF z \in back THEN id ELSE mux[z]],
             ops |-> [n \in 1..Len(zones) |-> Op("RegisterMux", zones[n], id)]
                     \o <<Op("applyDNSConfig", "", -1)>>]

serverButHandlers ==
    <<updateSerial, previousConfigHash, currentConfig, dnsMuxMap, serviceMux,
      localRecords, hostManager, ctxDone, permanent, hostsDnsList, listening,
      portUnsupported, hostDNS, pc, call, nCalls, last, lastOps, installedSerial,
      nHostUpdates>>

callbackFrame ==
    <<updateSerial, previousConfigHash, dnsMuxMap, localRecords, hostManager,
      ctxDone, permanent, hostsDnsList, listening, portUnsupported, pc, call,
      nCalls, last, lastOps, installedSerial, nHostUpdates>>

\* the running ServeDNS goroutines; goroutines at the same position are not
\* told apart
Running == BagToSet(queries)

\* goroutine q has moved on to q2, or has returned
Moved(q, q2) == (queries (-) SetToBag({q})) (+) SetToBag({q2})

Returned(q) == queries (-) SetToBag({q})

\* u.mutex is held by the ServeDNS goroutine that is inside checkUpstreamFails
MutexHeld(h) == \E q \in Running : q.pc = "deact" /\ q.h = h

\* the service's mux hands a query to the upstream resolver registered for
\* its zone; the deferred checkUpstreamFails is armed
Dispatch ==
    /\ BagCardinality(queries) < NumQueries
    /\ listening
    /\ \E z \in DOMAIN serviceMux :
          /\ serviceMux[z] # LocalResolver
          /\ handlers[serviceMux[z]].failsCount < MaxFails
          /\ queries' = queries (+) SetToBag({NewQuery(serviceMux[z])})
    /\ UNCHANGED <<serverVars, ios, clientVars, observed, management, firewall, daemon>>

\* ServeDNS: the test of the context, and the loop over no upstream at all
ServeEnter(q) ==
    /\ q.pc = "enter"
    /\ IF CtxDone(q.h)
       THEN /\ queries' = Moved(q, [q EXCEPT !.pc = "check"])
            /\ UNCHANGED handlers
       ELSE IF Len(handlers[q.h].upstreamServers) = 0
       THEN /\ queries' = Moved(q, [q EXCEPT !.pc = "check"])
            /\ handlers' = [handlers EXCEPT ![q.h] = Add1(@)]
       ELSE /\ queries' = Moved(q, [q EXCEPT !.pc = "exchange", !.idx = 1])
            /\ UNCHANGED handlers
    /\ UNCHANGED <<serverButHandlers, ios, clientVars, observed, management, firewall, daemon>>

\* ServeDNS: one turn of the loop over u.upstreamServers
Exchange(q, outcome) ==
    /\ q.pc = "exchange"
    /\ LET h == q.h
           upstream == handlers[h].upstreamServers[q.idx]
           asked == Append(q.contacted, [upstream |-> upstream, outcome |-> outcome])
       IN
       /\ outcome \in OutcomesOf(upstream)
       /\ IF isTimeout(outcome) /\ q.idx < Len(handlers[h].upstreamServers)
          THEN /\ queries' = Moved(q, [q EXCEPT !.idx = @ + 1, !.contacted = asked])
               /\ UNCHANGED handlers
          ELSE IF isTimeout(outcome) \/ outcome = "error"
          THEN /\ queries' = Moved(q, [q EXCEPT !.pc = "check", !.contacted = asked])
               /\ handlers' = [handlers EXCEPT ![h] = Add1(@)]
          ELSE IF outcome = "noresponse"
          THEN /\ queries' = Moved(q, [q EXCEPT !.pc = "check", !.contacted = asked])
               /\ UNCHANGED handlers
          ELSE /\ queries' = Moved(q, [q EXCEPT !.pc = "check", !.contacted = asked,
                                                !.wrote = TRUE])
               /\ handlers' = [handlers EXCEPT ![h].failsCount = 0]
    /\ UNCHANGED <<serverButHandlers, ios, clientVars, observed, management, firewall, daemon>>

\* checkUpstreamFails up to the call of deactivate, under u.mutex
checkUpstreamFails(q) ==
    /\ q.pc = "check"
    /\ ~MutexHeld(q.h)
    /\ IF mustDeactivate(handlers[q.h]) /\ ~CtxDone(q.h) /\ ~ios
       THEN queries' = Moved(q, [q EXCEPT !.pc = "deact"])
       ELSE queries' = Returned(q)
    /\ UNCHANGED <<serverVars, ios, clientVars, observed, management, firewall, daemon>>

\* checkUpstreamFails from the call of deactivate (which takes s.mux) to its
\* return: the resolver is disabled and its probe loop is started
Deactivate(q) ==
    /\ q.pc = "deact"
    /\ LET h == q.h
           r == deactivate(handlers[h], currentConfig, serviceMux)
       IN
       /\ handlers' = [handlers EXCEPT ![h].removeIndex = r.removeIndex,
                                       ![h].disabled = TRUE,
                                       ![h].loop = "probing",
                                       ![h].loops = @ + 1,
                                       ![h].pending = @ + 1,
                                       ![h].before = [currentConfig |-> currentConfig,
                                                      serviceMux |-> serviceMux]]
       /\ currentConfig' = r.currentConfig
       /\ serviceMux' = r.serviceMux
       /\ hostDNS' = IF handlers[h].kind = "host" THEN hostDNS ELSE Applied(r.currentConfig)
    /\ queries' = Returned(q)
    /\ UNCHANGED <<callbackFrame, ios, clientVars, observed, management, firewall, daemon>>

\* waitUntilResponse: one run of operation; answered is the first upstream
\* that answers the probe without an error, 0 when none does
ProbeAttempt(h, answered) ==
    /\ h \in DOMAIN handlers
    /\ handlers[h].loop = "probing"
    /\ IF CtxDone(h)
       THEN handlers' = [handlers EXCEPT ![h].loop = "exited", ![h].loops = @ - 1]
       ELSE /\ answered \in DOMAIN handlers[h].upstreamServers
            /\ "ok" \in OutcomesOf(handlers[h].upstreamServers[answered])
            /\ handlers' = [handlers EXCEPT ![h].loop = "succeeded", ![h].crossed = FALSE]
    /\ UNCHANGED <<serverButHandlers, resolverVars, clientVars, observed, management, firewall, daemon>>

\* waitUntilResponse: u.failsCount.Store(0)
ProbeReset(h) ==
    /\ h \in DOMAIN handlers
    /\ handlers[h].loop = "succeeded"
    /\ handlers' = [handlers EXCEPT ![h].failsCount = 0, ![h].loop = "reset"]
    /\ UNCHANGED <<serverButHandlers, resolverVars, clientVars, observed, management, firewall, daemon>>

\* a reactivate call that forgets the hash of the applied configuration
ProbeReactivateForget(h) ==
    /\ h \in DOMAIN handlers
    /\ handlers[h].loop = "reset"
    /\ LET r == reactivate(h, handlers[h], currentConfig, serviceMux) IN
       /\ handlers' = [handlers EXCEPT ![h].loop = "reactivated", ![h].pending = @ - 1]
       /\ currentConfig' = r.currentConfig
       /\ serviceMux' = r.serviceMux
       /\ hostDNS' = IF handlers[h].kind = "host" THEN hostDNS ELSE Applied(r.currentConfig)
    /\ previousConfigHash' = ZeroHash
    /\ UNCHANGED <<updateSerial, dnsMuxMap, localRecords, hostManager,
                   ctxDone, permanent, hostsDnsList, listening, portUnsupported, pc,
                   call, nCalls, last, lastOps, installedSerial, nHostUpdates>>
    /\ UNCHANGED <<resolverVars, clientVars, observed, management, firewall, daemon>>

\* waitUntilResponse: u.reactivate(), which takes s.mux
ProbeReactivate(h) ==
    /\ h \in DOMAIN handlers
    /\ handlers[h].loop = "reset"
    /\ LET r == reactivate(h, handlers[h], currentConfig, serviceMux) IN
       /\ handlers' = [handlers EXCEPT ![h].loop = "reactivated", ![h].pending = @ - 1]
       /\ currentConfig' = r.currentConfig
       /\ serviceMux' = r.serviceMux
       /\ hostDNS' = IF handlers[h].kind = "host" THEN hostDNS ELSE Applied(r.currentConfig)
    /\ UNCHANGED <<callbackFrame, resolverVars, clientVars, observed, management, firewall, daemon>>

\* waitUntilResponse: u.disabled = false, and the goroutine ends
ProbeEnable(h) ==
    /\ h \in DOMAIN handlers
    /\ handlers[h].loop = "reactivated"
    /\ handlers' = [handlers EXCEPT ![h].disabled = FALSE, ![h].loop = "none",
                                    ![h].loops = @ - 1]
    /\ UNCHANGED <<serverButHandlers, resolverVars, clientVars, observed, management, firewall, daemon>>

\* configurations with one nameserver group of two upstreams
CfgPrimary ==
    Cfg(TRUE, <<Group(<<NS("1.1.1.1", "udp"), NS("8.8.8.8", "udp")>>, TRUE, <<>>)>>, <<>>)

CfgDomain ==
    Cfg(TRUE, <<Group(<<NS("10.0.0.2", "udp"), NS("10.0.0.3", "udp")>>, FALSE, <<"a.">>)>>, <<>>)

UpstreamConfigs == {CfgPrimary, CfgDomain}

NumResolvers == 2

Resolvers == 1..NumResolvers

InitUpstream == Init /\ ~permanent /\ InitQueries /\ ios \in BOOLEAN /\ InitClient /\ InitObserved /\ InitElsewhere

\* the server receives one update and then serves queries
NextUpstream ==
    \/ Initialize /\ UNCHANGED <<resolverVars, clientVars, observed, management, firewall, daemon>>
    \/ Stop /\ UNCHANGED <<resolverVars, clientVars, observed, management, firewall, daemon>>
    \/ \E update \in UpstreamConfigs :
          nCalls = 0 /\ UpdateCheck(1, 1, update) /\ UNCHANGED <<resolverVars, clientVars, observed, management, firewall, daemon>>
    \/ UpdateLocked(1) /\ UNCHANGED <<resolverVars, clientVars, observed, management, firewall, daemon>>
    \/ Dispatch
    \/ \E q \in Running : ServeEnter(q)
    \/ \E q \in Running, outcome \in Outcomes : Exchange(q, outcome)
    \/ \E q \in Running : checkUpstreamFails(q)
    \/ \E q \in Running : Deactivate(q)
    \/ \E h \in Resolvers, answered \in 0..2 : ProbeAttempt(h, answered)
    \/ \E h \in Resolvers : ProbeReset(h)
    \/ \E h \in Resolvers : ProbeReactivate(h)
    \/ \E h \in Resolvers : ProbeEnable(h)

SpecUpstream == InitUpstream /\ [][NextUpstream]_vars

\* the probe loop is scheduled fairly: a step it can take is eventually taken
ProbeFairness ==
    \A h \in Resolvers :
        /\ WF_vars(\E answered \in 0..2 : ProbeAttempt(h, answered))
        /\ WF_vars(ProbeReset(h))
        /\ WF_vars(ProbeReactivate(h))
        /\ WF_vars(ProbeEnable(h))

SpecUpstreamFair == SpecUpstream /\ ProbeFairness

----------------------------------------------------------------------------
(* C4: deactivation at the threshold, once per episode *)

\* the resolvers that exist
Live == {h \in Resolvers : h \in DOMAIN handlers}

\* the step is goroutine q leaving the guards of checkUpstreamFails: it goes
\* on to call deactivate, or it returns
GoesOn(q) == q.pc = "check" /\ queries' = Moved(q, [q EXCEPT !.pc = "deact"])

GivesUp(q) == q.pc = "check" /\ queries' = Returned(q)

\* the step is goroutine q calling deactivate in checkUpstreamFails
DeactStep(q) == q.pc = "deact" /\ queries' = Returned(q)

\* never a second deactivate before reactivate, at most one probe loop
OncePerEpisode ==
    \A h \in Live : handlers[h].pending \in {0, 1} /\ handlers[h].loops \in {0, 1}

\* what checkUpstreamFails does once it calls deactivate
DeactivateEffect(q) ==
    DeactStep(q) => /\ handlers'[q.h].pending = handlers[q.h].pending + 1
                    /\ handlers'[q.h].disabled
                    /\ handlers'[q.h].loop = "probing"
                    /\ handlers'[q.h].loops = handlers[q.h].loops + 1

\* the counter is at the threshold on a resolver neither disabled nor stopped
AtThreshold(h) ==
    /\ handlers[h].failsCount >= failsTillDeact
    /\ ~handlers[h].disabled
    /\ ~CtxDone(h)

\* C4 as stated: whenever checkUpstreamFails finds the counter at 5 on a
\* resolver that is neither stopped nor disabled, it invokes deactivate, sets
\* disabled and starts a probe loop; deactivate is never invoked twice
\* without a reactivate in between and at most one probe loop runs
C4_DeactivatesAtThreshold ==
    /\ []OncePerEpisode
    /\ [][\A q \in Running :
            /\ AtThreshold(q.h) => ~GivesUp(q)
            /\ DeactivateEffect(q)]_vars

\* C4: on a platform other than iOS, whenever checkUpstreamFails finds the
\* counter at 5 on a resolver that is neither stopped nor disabled, it invokes
\* deactivate, sets disabled and starts a probe loop, and it invokes
\* deactivate in no other case; on every platform deactivate is never invoked
\* a second time before reactivate and at most one probe loop runs per
\* resolver
C4_DeactivatesOncePerEpisode ==
    /\ []OncePerEpisode
    /\ [][\A q \in Running :
            /\ (AtThreshold(q.h) /\ ~ios) => ~GivesUp(q)
            /\ GoesOn(q) => (AtThreshold(q.h) /\ ~ios)
            /\ DeactivateEffect(q)]_vars

\* a second ServeDNS goroutine reaches checkUpstreamFails with the counter
\* over the threshold while the resolver is deactivated and being probed
C4_Witness ==
    \E q \in Running :
        LET h == q.h IN
        /\ q.pc = "check"
        /\ handlers[h].failsCount >= failsTillDeact
        /\ handlers[h].disabled
        /\ handlers[h].pending = 1
        /\ handlers[h].loop = "probing"

----------------------------------------------------------------------------
(* C5: the disabled flag *)

\* C5 as stated: disabled is true exactly when the counter has reached the
\* threshold and no probe has succeeded since
C5_DisabledIffCrossed ==
    \A h \in Live : handlers[h].disabled <=> handlers[h].crossed

\* C5: disabled is true exactly from the deactivation by checkUpstreamFails
\* until the probe loop it started has returned from reactivate; it is set
\* only off iOS, and while the loop has not seen a successful probe the
\* counter has reached the threshold
C5_DisabledWhileProbing ==
    \A h \in Live :
        /\ handlers[h].disabled <=> handlers[h].loop # "none"
        /\ handlers[h].disabled => ~ios
        /\ handlers[h].loop \in {"probing", "exited"} => handlers[h].crossed

\* a probe has succeeded and the resolver is still disabled
C5_Witness ==
    \E h \in Live :
        /\ handlers[h].disabled
        /\ handlers[h].loop = "reset"
        /\ ~handlers[h].crossed

----------------------------------------------------------------------------
(* C6: a successful probe leads to reactivation *)

\* the zones a nameserver group serves
ZonesOf(h) ==
    SeqToSet(handlers[h].nsGroup.Domains)
        \cup (IF handlers[h].nsGroup.Primary THEN {RootZone} ELSE {})

Registered(h) ==
    \A z \in ZonesOf(h) : z \in DOMAIN serviceMux /\ serviceMux[z] = h

Probe(h, at) == h \in DOMAIN handlers /\ handlers[h].loop = at

\* C6: the probe loop of a resolver that is not stopped only ends with a
\* successful probe; after a successful probe, eventually the counter is
\* reset to 0, reactivate is invoked and the group's zones are registered
\* again, and disabled becomes false
C6_ProbeSuccessReactivates ==
    /\ [][\A h \in Live :
            (handlers[h].loop = "probing" /\ handlers'[h].loop # "probing")
                => (handlers'[h].loop = "succeeded" \/ CtxDone(h))]_vars
    /\ \A h \in Resolvers :
        /\ Probe(h, "succeeded") ~> (Probe(h, "reset") /\ handlers[h].failsCount = 0)
        /\ Probe(h, "succeeded")
              ~> (Probe(h, "reactivated") /\ handlers[h].pending = 0 /\ Registered(h))
        /\ Probe(h, "succeeded") ~> (Probe(h, "none") /\ ~handlers[h].disabled)

\* a resolver of a group with a match domain has been deactivated and
\* reactivated: it is enabled and its zone is registered again
C6_Witness ==
    \E h \in Live :
        /\ handlers[h].removeIndex # EmptyMap
        /\ \E z \in DOMAIN handlers[h].removeIndex : handlers[h].removeIndex[z] # -1
        /\ handlers[h].loop = "none"
        /\ ~handlers[h].disabled
        /\ Registered(h)

----------------------------------------------------------------------------
(* C8: ServeDNS walks the upstreams in order *)

\* C8: the upstreams a query has contacted are the first ones of the list, in
\* list order; every one but the last timed out; a query that ended wrote a
\* response exactly when the last upstream contacted answered; a query only
\* ends on a timeout when no upstream is left
C8_InOrderFirstAnswerWins ==
    \A q \in Running :
        LET c == q.contacted
            h == q.h
            n == Len(c)
        IN q.pc \in {"exchange", "check", "deact"} =>
            /\ n <= Len(handlers[h].upstreamServers)
            /\ \A i \in 1..n : c[i].upstream = handlers[h].upstreamServers[i]
            /\ \A i \in 1..(n - 1) : c[i].outcome = "timeout"
            /\ q.pc = "exchange" =>
                  /\ q.idx = n + 1
                  /\ n > 0 => c[n].outcome = "timeout"
            /\ q.pc # "exchange" =>
                  /\ q.wrote <=> (n > 0 /\ c[n].outcome = "ok")
                  /\ (n > 0 /\ c[n].outcome = "timeout") => n = Len(handlers[h].upstreamServers)

\* a query whose first upstream timed out was answered by the second
C8_Witness ==
    \E q \in Running :
        /\ q.pc = "check"
        /\ Len(q.contacted) = 2
        /\ q.contacted[1].outcome = "timeout"
        /\ q.contacted[2].outcome = "ok"
        /\ q.wrote

----------------------------------------------------------------------------
(* runClient: the supervisor loop around the engine *)

\* errors are told apart by what runClient tests: the gRPC code
\* PermissionDenied, ErrResetConnection, and any other error
Errors == {"PermissionDenied", "ErrResetConnection", "other"}

\* deferred functions that close the clients and leave the engine's context
releasedNoCancel(c) == [c EXCEPT !.mgmClient = FALSE, !.signalClient = FALSE]

\* the deferred functions of one run of operation: the connection marks
\* are cleared, the clients closed and the engine's context cancelled
released(c) == [c EXCEPT !.mgmClient = FALSE, !.signalClient = FALSE, !.engineCtx = "done"]

disconnected(r, c) ==
    [r EXCEPT !.management = FALSE,
              !.signal = IF c.pc \in {"signal", "engine", "connected"} THEN FALSE ELSE @]

\* operation returns err to backoff.Retry: nil and a permanent error end the
\* retry loop, any other error is retried after the next backoff interval
returned(c, err, isPermanent) ==
    [released(c) EXCEPT !.err = err,
                        !.pc = IF err = "nil" \/ isPermanent THEN "afterRetry" ELSE "backoff"]

\* after backoff.Retry, with the status left as it is
afterRetryKeep(st, err) == st

\* after backoff.Retry: PermissionDenied sets the status NeedsLogin
afterRetry(st, err) == IF err = "PermissionDenied" THEN Set(st, "NeedsLogin") ELSE st

\* the deferred status reset of runClient
statusReset(st) ==
    IF Status(st).err # "nil" \/ Status(st).status # "NeedsLogin"
    THEN Set(st, "Idle") ELSE st

\* runClient up to backoff.Retry: the private key and the SSH key are parsed
runClient(keyOk, sshOk) ==
    /\ client.pc = "init"
    /\ IF ~keyOk
       THEN /\ state' = Wrap(state, "other")
            /\ client' = [client EXCEPT !.pc = "deferred", !.ret = "other"]
            /\ UNCHANGED recorder
       ELSE IF ~sshOk
       THEN /\ client' = [client EXCEPT !.pc = "deferred", !.ret = "other"]
            /\ UNCHANGED <<state, recorder>>
       ELSE /\ client' = [client EXCEPT !.pc = "operation", !.started = TRUE]
            /\ recorder' = [recorder EXCEPT !.client = "started"]
            /\ UNCHANGED state
    /\ UNCHANGED <<runCtx, serverVars, resolverVars, observed, management, firewall, daemon>>

\* an operation that starts a connection attempt whatever its context
operationAnyway ==
    /\ client.pc = "operation"
    /\ client.attempts < MaxAttempts
    /\ state' = Set(state, "Connecting")
    /\ client' = [client EXCEPT !.pc = "mgm", !.attempts = @ + 1,
                                !.steps = <<>>, !.engineCtx = "live",
                                !.engine = "none"]
    /\ UNCHANGED <<recorder, runCtx, serverVars, resolverVars, observed, management, firewall, daemon>>

\* operation: the test of the context and the start of a connection attempt
operation ==
    /\ client.pc = "operation"
    /\ runCtx = "done" \/ client.attempts < MaxAttempts
    /\ IF runCtx = "done"
       THEN /\ client' = [client EXCEPT !.pc = "afterRetry", !.err = "nil"]
            /\ UNCHANGED state
       ELSE /\ state' = Set(state, "Connecting")
            /\ client' = [client EXCEPT !.pc = "mgm", !.attempts = @ + 1,
                                        !.steps = <<>>, !.engineCtx = "live",
                                        !.engine = "none"]
    /\ UNCHANGED <<recorder, runCtx, serverVars, resolverVars, observed, management, firewall, daemon>>

\* operation: mgm.NewClient
ConnectManagement(ok) ==
    /\ client.pc = "mgm"
    /\ LET c == [client EXCEPT !.steps = Append(@, "Management")] IN
       IF ok
       THEN /\ client' = [c EXCEPT !.pc = "login", !.mgmClient = TRUE]
            /\ UNCHANGED <<state, recorder>>
       ELSE /\ state' = Wrap(state, "other")
            /\ client' = returned(c, "other", FALSE)
            /\ recorder' = disconnected(recorder, client)
    /\ UNCHANGED <<runCtx, serverVars, resolverVars, observed, management, firewall, daemon>>

\* operation: loginToManagement and the handling of its error
Login(outcome) ==
    /\ client.pc = "login"
    /\ LET c == [client EXCEPT !.steps = Append(@, "Login")] IN
       IF outcome = "ok"
       THEN /\ client' = [c EXCEPT !.pc = "signal"]
            /\ recorder' = [recorder EXCEPT !.management = TRUE]
            /\ UNCHANGED state
       ELSE IF outcome = "PermissionDenied"
       THEN /\ state' = Wrap(Set(state, "NeedsLogin"), "PermissionDenied")
            /\ client' = [returned(c, "PermissionDenied", TRUE) EXCEPT !.denied = TRUE]
            /\ recorder' = disconnected(recorder, client)
       ELSE /\ state' = Wrap(state, "other")
            /\ client' = returned(c, "other", FALSE)
            /\ recorder' = disconnected(recorder, client)
    /\ UNCHANGED <<runCtx, serverVars, resolverVars, observed, management, firewall, daemon>>

\* a connectToSignal whose error is logged and not returned
ConnectSignalAnyway(ok) ==
    /\ client.pc = "signal"
    /\ client' = [client EXCEPT !.steps = Append(@, "Signal"), !.pc = "engine",
                                !.signalClient = ok]
    /\ recorder' = [recorder EXCEPT !.signal = ok]
    /\ UNCHANGED <<state, runCtx, serverVars, resolverVars, observed, management, firewall, daemon>>

\* operation: connectToSignal
ConnectSignal(ok) ==
    /\ client.pc = "signal"
    /\ LET c == [client EXCEPT !.steps = Append(@, "Signal")] IN
       IF ok
       THEN /\ client' = [c EXCEPT !.pc = "engine", !.signalClient = TRUE]
            /\ recorder' = [recorder EXCEPT !.signal = TRUE]
            /\ UNCHANGED state
       ELSE /\ state' = Wrap(state, "other")
            /\ client' = returned(c, "other", FALSE)
            /\ recorder' = disconnected(recorder, client)
    /\ UNCHANGED <<runCtx, serverVars, resolverVars, observed, management, firewall, daemon>>

\* operation: createEngineConfig, NewEngine and engine.Start
EngineStart(ok) ==
    /\ client.pc = "engine"
    /\ LET c == [client EXCEPT !.steps = Append(@, "Engine")] IN
       IF ok
       THEN /\ state' = Set(state, "Connected")
            /\ client' = [c EXCEPT !.pc = "connected", !.engine = "running"]
            /\ UNCHANGED recorder
       ELSE /\ state' = Wrap(state, "other")
            /\ client' = returned(c, "other", FALSE)
            /\ recorder' = disconnected(recorder, client)
    /\ UNCHANGED <<runCtx, serverVars, resolverVars, observed, management, firewall, daemon>>

\* the engine cancels its context, with or without asking for a reset of the
\* connection
EngineCancel(reset) ==
    /\ client.pc = "connected"
    /\ client.engineCtx = "live"
    /\ client' = [client EXCEPT !.engineCtx = "done"]
    /\ state' = IF reset THEN Wrap(state, "ErrResetConnection") ELSE state
    /\ UNCHANGED <<recorder, runCtx, serverVars, resolverVars, observed, management, firewall, daemon>>

\* the daemon cancels the context it passed to runClient
Cancel ==
    /\ runCtx = "live"
    /\ client.pc # "done"
    /\ runCtx' = "done"
    /\ client' = [client EXCEPT !.engineCtx = IF @ = "live" THEN "done" ELSE @]
    /\ UNCHANGED <<state, recorder, serverVars, resolverVars, observed, management, firewall, daemon>>

\* an operation that returns nil after engine.Stop whatever the state holds
EngineDoneForget(stopOk) ==
    /\ client.pc = "connected"
    /\ client.engineCtx = "done"
    /\ LET c == [client EXCEPT !.engine = "stopped"] IN
       IF ~stopOk
       THEN /\ state' = Wrap(state, "other")
            /\ client' = returned(c, "other", FALSE)
       ELSE /\ client' = returned(c, "nil", FALSE)
            /\ UNCHANGED state
    /\ recorder' = disconnected(recorder, client)
    /\ UNCHANGED <<runCtx, serverVars, resolverVars, observed, management, firewall, daemon>>

\* operation from <-engineCtx.Done() to its return
EngineDone(stopOk) ==
    /\ client.pc = "connected"
    /\ client.engineCtx = "done"
    /\ LET c == [client EXCEPT !.engine = "stopped"] IN
       IF ~stopOk
       THEN /\ state' = Wrap(state, "other")
            /\ client' = returned(c, "other", FALSE)
       ELSE /\ client' = IF Status(state).err = "ErrResetConnection"
                         THEN returned(c, "ErrResetConnection", FALSE)
                         ELSE returned(c, "nil", FALSE)
            /\ UNCHANGED state
    /\ recorder' = disconnected(recorder, client)
    /\ UNCHANGED <<runCtx, serverVars, resolverVars, observed, management, firewall, daemon>>

\* backoff.Retry between two runs of operation: it runs operation again,
\* or returns the error once MaxElapsedTime has passed
Backoff(expired) ==
    /\ client.pc = "backoff"
    /\ client' = [client EXCEPT !.pc = IF expired THEN "afterRetry" ELSE "operation"]
    /\ UNCHANGED <<state, recorder, runCtx, serverVars, resolverVars, observed, management, firewall, daemon>>

\* runClient after backoff.Retry
AfterRetry ==
    /\ client.pc = "afterRetry"
    /\ state' = IF client.err # "nil" THEN afterRetry(state, client.err) ELSE state
    /\ client' = [client EXCEPT !.pc = "deferred", !.ret = client.err]
    /\ UNCHANGED <<recorder, runCtx, serverVars, resolverVars, observed, management, firewall, daemon>>

\* the deferred functions of runClient: ClientStop, then the status reset
Deferred ==
    /\ client.pc = "deferred"
    /\ recorder' = IF client.started THEN [recorder EXCEPT !.client = "stopped"] ELSE recorder
    /\ state' = statusReset(state)
    /\ client' = [client EXCEPT !.pc = "done"]
    /\ UNCHANGED <<runCtx, serverVars, resolverVars, observed, management, firewall, daemon>>

InitRunClient == Init /\ ~permanent /\ InitQueries /\ NotIOS /\ InitClient /\ InitObserved /\ InitElsewhere

NextClient ==
    \/ \E keyOk \in BOOLEAN, sshOk \in BOOLEAN : runClient(keyOk, sshOk)
    \/ operation
    \/ \E ok \in BOOLEAN : ConnectManagement(ok)
    \/ \E outcome \in {"ok", "PermissionDenied", "other"} : Login(outcome)
    \/ \E ok \in BOOLEAN : ConnectSignal(ok)
    \/ \E ok \in BOOLEAN : EngineStart(ok)
    \/ \E reset \in BOOLEAN : EngineCancel(reset)
    \/ Cancel
    \/ \E stopOk \in BOOLEAN : EngineDone(stopOk)
    \/ \E expired \in BOOLEAN : Backoff(expired)
    \/ AfterRetry
    \/ Deferred

SpecClient == InitRunClient /\ [][NextClient]_vars

----------------------------------------------------------------------------
(* C7: PermissionDenied at Login *)

\* the step in which Management answers Login with PermissionDenied
LoginDenied == client.pc = "login" /\ ~client.denied /\ client'.denied

\* C7: when Login is answered with PermissionDenied the status is set to
\* NeedsLogin and the retry loop is left; from then on no further attempt is
\* started and no step of an attempt, in particular no connection to Signal,
\* is made; when runClient has returned, it returned the error and the
\* status is NeedsLogin
C7_PermissionDeniedNeedsLogin ==
    /\ [][LoginDenied => state'.status = "NeedsLogin" /\ client'.pc = "afterRetry"]_vars
    /\ [][client.denied => /\ client'.attempts = client.attempts
                           /\ client'.steps = client.steps]_vars
    /\ [](client.denied =>
            /\ client.pc \in {"afterRetry", "deferred", "done"}
            /\ "Signal" \notin SeqToSet(client.steps)
            /\ ~client.signalClient
            /\ client.pc = "done" =>
                  /\ Status(state) = [status |-> "NeedsLogin", err |-> "nil"]
                  /\ client.ret = "PermissionDenied")

\* runClient has returned after a second attempt whose Login was denied
C7_Witness ==
    /\ client.pc = "done"
    /\ client.denied
    /\ client.attempts = 2
    /\ state.status = "NeedsLogin"

----------------------------------------------------------------------------
(* C11: Stop and the host DNS *)

\* C11: once Stop has returned, every upstream handler created by the server
\* is cancelled, the host DNS is the restored one whenever the host manager
\* was initialised when Stop ran, and no later step (a deactivate or
\* reactivate callback, an UpdateDNSServer) applies a DNS configuration to
\* the host again
C11_StopRestoresHostDNS ==
    /\ [](ctxDone => \A h \in DOMAIN handlers : CtxDone(h))
    /\ [][(~ctxDone /\ ctxDone' /\ hostManager) => hostDNS'.state = "restored"]_vars
    /\ [][ctxDone => hostDNS' = hostDNS]_vars

----------------------------------------------------------------------------
(* C13: the mutex s.mux and the handler map *)

\* no UpdateDNSServer call is inside its critical section
MuxFree == \A c \in Callers : pc[c] # "held"

\* s.mux.Lock() of UpdateDNSServer
LockMux(c) ==
    /\ pc[c] = "lock"
    /\ MuxFree
    /\ pc' = [pc EXCEPT ![c] = "held"]
    /\ UNCHANGED <<updateSerial, previousConfigHash, currentConfig, dnsMuxMap,
                   serviceMux, localRecords, hostManager, ctxDone, permanent,
                   hostsDnsList, listening, portUnsupported, handlers, hostDNS,
                   call, nCalls, last, lastOps, installedSerial, nHostUpdates>>

\* UpdateDNSServer from s.mux.Lock() to the deferred s.mux.Unlock()
UpdateHeld(c) == UpdateFrom(c, "held")

\* the server with the critical sections of s.mux spelt out: Initialize, Stop
\* and UpdateDNSServer take s.mux, OnUpdatedHostDNSServer takes
\* s.hostsDnsListLock only
NextMutex ==
    \/ MuxFree /\ Initialize /\ UNCHANGED <<resolverVars, clientVars, observed, management, firewall, daemon>>
    \/ MuxFree /\ Stop /\ UNCHANGED <<resolverVars, clientVars, observed, management, firewall, daemon>>
    \/ \E list \in HostLists : OnUpdatedHostDNSServer(list) /\ UNCHANGED <<resolverVars, clientVars, observed, management, firewall, daemon>>
    \/ \E c \in Callers, serial \in Serials, update \in Configs :
          UpdateCheck(c, serial, update) /\ UNCHANGED <<resolverVars, clientVars, observed, management, firewall, daemon>>
    \/ \E c \in Callers : LockMux(c) /\ UNCHANGED <<resolverVars, clientVars, observed, management, firewall, daemon>>
    \/ \E c \in Callers : UpdateHeld(c) /\ UNCHANGED <<resolverVars, clientVars, observed, management, firewall, daemon>>

SpecMutex == InitServer /\ [][NextMutex]_vars

\* caller c holds s.mux in an UpdateDNSServer that runs updateMux, which
\* reads and replaces s.dnsMuxMap
InUpdateMux(c) ==
    /\ pc[c] = "held"
    /\ hostManager
    /\ ~sameConfig(previousConfigHash, Hash(call[c].update))
    /\ ~applyConfiguration(call[c].update).err

\* C13: every access of dnsMuxMap is made under s.mux, so the read of
\* dnsMuxMap in OnUpdatedHostDNSServer never happens while an UpdateDNSServer
\* is inside the critical section in which updateMux reads and replaces the
\* map
C13_MapUnderMutex ==
    [][nHostUpdates' # nHostUpdates => \A c \in Callers : ~InUpdateMux(c)]_vars

----------------------------------------------------------------------------
(* C14: the update sequence A, B, A *)

\* the shape of the sequence: equal letters stand for the same configuration
Sequence == <<"A", "B", "A">>

\* a primary nameserver group whose only nameserver is not a UDP one
CfgPrimaryTCP ==
    Cfg(TRUE, <<Group(<<NS("1.1.1.1", "tcp")>>, TRUE, <<>>)>>, <<>>)

\* configurations that fail validation: a custom zone without records, a
\* record of another class, an empty domain element
CfgEmptyZone ==
    Cfg(TRUE, <<Group(<<NS("1.1.1.1", "udp")>>, TRUE, <<>>)>>,
        <<Zone("c.", <<Rec("h.c.")>>), Zone("d.", <<>>)>>)

CfgBadClass ==
    Cfg(TRUE, <<Group(<<NS("10.0.0.2", "udp")>>, FALSE, <<"b.">>)>>,
        <<Zone("d.", <<Rec("h.d."), [Rec("g.d.") EXCEPT !.Class = "CH"]>>)>>)

CfgEmptyDomain ==
    Cfg(TRUE,
        <<Group(<<NS("1.1.1.1", "udp")>>, TRUE, <<>>),
          Group(<<NS("10.0.0.2", "udp")>>, FALSE, <<"b.", "">>)>>,
        <<Zone("d.", <<Rec("h.d.")>>)>>)

\* a group without nameservers, a group with a TCP nameserver only, and a
\* group that has a UDP nameserver
CfgNoServers ==
    Cfg(TRUE,
        <<Group(<<>>, FALSE, <<"d.">>),
          Group(<<NS("10.0.0.4", "tcp")>>, FALSE, <<"e.">>),
          Group(<<NS("10.0.0.2", "udp")>>, FALSE, <<"b.">>)>>,
        <<>>)

ABAConfigs ==
    {CfgMixed, CfgTie, CfgTieRev, CfgPrimary, CfgDomain, CfgNoDomains, CfgPrimaryTCP,
     CfgEmptyZone, CfgBadClass, CfgEmptyDomain, CfgNoServers}

\* the kind of a handler: the local resolver, the upstream resolver of a
\* nameserver group, or the one built from the host's DNS addresses
KindOf(id) == IF id = LocalResolver THEN "local" ELSE handlers[id].kind

\* the DNS state: the registered zones with the kind of handler of each, the
\* local records and the host DNS configuration
DNSState ==
    [mux |-> [z \in DOMAIN serviceMux |-> KindOf(serviceMux[z])],
     localRecords |-> localRecords,
     hostDNS |-> hostDNS]

\* the next call of a sequence of the given shape, made when the previous
\* one has returned, with the next serial
SequenceCallOf(shape, update) ==
    /\ Len(observed) < Len(shape)
    /\ \A j \in 1..Len(observed) :
          shape[j] = shape[Len(observed) + 1] => update = observed[j].update
    /\ UpdateEnter(1, Len(observed) + 1, update)

\* the next call of A, B, A on an initialised server
SequenceCall(update) ==
    /\ hostManager
    /\ SequenceCallOf(Sequence, update)
    /\ UNCHANGED observed

\* the call runs under s.mux and returns; the DNS state it leaves is recorded
SequenceReturn ==
    /\ UpdateLocked(1)
    /\ observed' = Append(observed, [update |-> call[1].update,
                                     result |-> last'.result,
                                     dns |-> DNSState'])

NextSequence ==
    \/ Initialize /\ UNCHANGED <<resolverVars, clientVars, observed, management, firewall, daemon>>
    \/ \E update \in ABAConfigs : SequenceCall(update) /\ UNCHANGED <<resolverVars, clientVars, management, firewall, daemon>>
    \/ SequenceReturn /\ UNCHANGED <<resolverVars, clientVars, management, firewall, daemon>>

SpecSequence == InitServer /\ [][NextSequence]_vars

RootLeft ==
    /\ observed[2].result = "applied"
    /\ RootZone \in CandidateZones(observed[2].update)
    /\ RootZone \notin CandidateZones(observed[1].update)

----------------------------------------------------------------------------
(* The callbacks on configurations with several groups *)

\* two nameserver groups that share the match domain a., and a custom zone
CfgShared ==
    Cfg(TRUE,
        <<Group(<<NS("10.0.0.2", "udp")>>, FALSE, <<"a.">>),
          Group(<<NS("10.0.0.3", "udp")>>, FALSE, <<"a.", "b.">>)>>,
        <<Zone("c.", <<Rec("h.c.")>>)>>)

CallbackConfigs == {CfgMixed, CfgShared}

InitCallbacks == Init /\ ~permanent /\ InitQueries /\ NotIOS /\ InitClient /\ InitObserved /\ InitElsewhere

\* the server receives one update with several groups and then serves queries,
\* one at a time
NextCallbacks ==
    \/ Initialize /\ UNCHANGED <<resolverVars, clientVars, observed, management, firewall, daemon>>
    \/ Stop /\ UNCHANGED <<resolverVars, clientVars, observed, management, firewall, daemon>>
    \/ \E update \in CallbackConfigs :
          nCalls = 0 /\ UpdateCheck(1, 1, update) /\ UNCHANGED <<resolverVars, clientVars, observed, management, firewall, daemon>>
    \/ UpdateLocked(1) /\ UNCHANGED <<resolverVars, clientVars, observed, management, firewall, daemon>>
    \/ queries = EmptyBag /\ Dispatch
    \/ \E q \in Running : ServeEnter(q)
    \/ \E q \in Running, outcome \in Outcomes : Exchange(q, outcome)
    \/ \E q \in Running : checkUpstreamFails(q)
    \/ \E q \in Running : Deactivate(q)
    \/ \E h \in Resolvers, answered \in 0..2 : ProbeAttempt(h, answered)
    \/ \E h \in Resolvers : ProbeReset(h)
    \/ \E h \in Resolvers : ProbeReactivate(h)
    \/ \E h \in Resolvers : ProbeEnable(h)

SpecCallbacks == InitCallbacks /\ [][NextCallbacks]_vars

----------------------------------------------------------------------------
(* C15: what the deactivate hook does *)

\* the names of the domains of a host configuration
DomainNames(config) == {config.Domains[i].Domain : i \in DOMAIN config.Domains}

\* C15: the deactivate hook of a nameserver group sets Disabled on exactly
\* the domains of currentConfig that bear the name of a domain of the group
\* and changes no other flag; it clears RouteAll if the group is primary and
\* leaves it otherwise; it deregisters those domains from the mux and leaves
\* every other registration; and it applies the resulting currentConfig to
\* the host
C15_DeactivateDisablesGroup ==
    [][\A q \in Running :
          (DeactStep(q) /\ handlers[q.h].kind = "group") =>
             LET g == handlers[q.h].nsGroup
                 names == SeqToSet(g.Domains) \cup (IF g.Primary THEN {RootZone} ELSE {})
                 old == currentConfig.Domains
                 new == currentConfig'.Domains
                 gone == names \cap DomainNames(currentConfig)
             IN /\ DOMAIN new = DOMAIN old
                /\ \A i \in DOMAIN old :
                      /\ new[i].Domain = old[i].Domain
                      /\ new[i].MatchOnly = old[i].MatchOnly
                      /\ new[i].Disabled = (old[i].Domain \in names \/ old[i].Disabled)
                /\ currentConfig'.RouteAll = (~g.Primary /\ currentConfig.RouteAll)
                /\ serviceMux' = [z \in (DOMAIN serviceMux) \ gone |-> serviceMux[z]]
                /\ hostDNS' = Applied(currentConfig')]_vars

\* a group with match domains has been deactivated next to a primary group
\* and a custom zone: its domains are disabled and deregistered, the custom
\* zone and the root zone are not, and the host has the resulting
\* configuration
C15_Witness ==
    \E h \in Live :
        /\ handlers[h].loop = "probing"
        /\ handlers[h].pending = 1
        /\ ~handlers[h].nsGroup.Primary
        /\ currentConfig.RouteAll
        /\ \E i, j \in DOMAIN currentConfig.Domains :
              /\ currentConfig.Domains[i].Disabled
              /\ currentConfig.Domains[i].Domain \notin DOMAIN serviceMux
              /\ ~currentConfig.Domains[j].Disabled
              /\ currentConfig.Domains[j].Domain \in DOMAIN serviceMux
        /\ RootZone \in DOMAIN serviceMux
        /\ hostDNS = Applied(currentConfig)

----------------------------------------------------------------------------
(* C16: reactivate reverses deactivate *)

\* the step is the reactivate call of resolver h
ReactStep(h) == handlers[h].loop = "reset" /\ handlers'[h].loop = "reactivated"

\* C16: reactivate is never invoked for a group before its deactivate, and
\* the reactivate call that follows a deactivate call of the same group, with
\* no DNS update in between, leaves every Disabled flag of currentConfig, its
\* RouteAll and the mux registrations of the group's zones as the deactivate
\* call found them (the flags and registrations of another group that was
\* deactivated or reactivated in between are left out of the comparison)
C16_ReactivateRestores ==
    /\ [](\A h \in Live : handlers[h].pending >= 0)
    /\ [][\A h \in Live :
            (ReactStep(h) /\ handlers[h].kind = "group") =>
               LET found == handlers[h].before
                   own == ZonesOf(h)
                   others == UNION {ZonesOf(o) : o \in Live \ {h}}
               IN /\ handlers[h].pending = 1
                  /\ DOMAIN currentConfig'.Domains = DOMAIN found.currentConfig.Domains
                  /\ \A i \in DOMAIN currentConfig'.Domains :
                        (currentConfig'.Domains[i].Domain \in own
                           \/ currentConfig'.Domains[i].Domain \notin others)
                        => currentConfig'.Domains[i] = found.currentConfig.Domains[i]
                  /\ handlers[h].nsGroup.Primary
                        => currentConfig'.RouteAll = found.currentConfig.RouteAll
                  /\ \A z \in own :
                        /\ (z \in DOMAIN serviceMux') = (z \in DOMAIN found.serviceMux)
                        /\ z \in DOMAIN serviceMux' => serviceMux'[z] = found.serviceMux[z]]_vars

----------------------------------------------------------------------------
(* C17: the callbacks and the serial state *)

\* the same configuration sent twice
Twice == <<"A", "A">>

\* the next call of the configuration sent twice; a call that returns before
\* it takes s.mux is recorded at once
ReapplyCall(update) ==
    /\ SequenceCallOf(Twice, update)
    /\ observed' = IF pc'[1] = "idle"
                   THEN Append(observed, [update |-> update, result |-> last'.result])
                   ELSE observed

\* the call runs under s.mux and returns; how it returned is recorded
ReapplyReturn ==
    /\ UpdateLocked(1)
    /\ observed' = Append(observed, [update |-> call[1].update,
                                     result |-> last'.result])

InitReapply == Init /\ ~permanent /\ InitQueries /\ NotIOS /\ InitClient /\ InitObserved /\ InitElsewhere

\* the server receives a configuration and, later, the same configuration
\* again, while it serves queries one at a time
NextReapply ==
    \/ Initialize /\ UNCHANGED <<resolverVars, clientVars, observed, management, firewall, daemon>>
    \/ Stop /\ UNCHANGED <<resolverVars, clientVars, observed, management, firewall, daemon>>
    \/ \E update \in UpstreamConfigs :
          ReapplyCall(update) /\ UNCHANGED <<resolverVars, clientVars, management, firewall, daemon>>
    \/ ReapplyReturn /\ UNCHANGED <<resolverVars, clientVars, management, firewall, daemon>>
    \/ queries = EmptyBag /\ Dispatch
    \/ \E q \in Running : ServeEnter(q)
    \/ \E q \in Running, outcome \in Outcomes : Exchange(q, outcome)
    \/ \E q \in Running : checkUpstreamFails(q)
    \/ \E q \in Running : Deactivate(q)
    \/ \E h \in Resolvers, answered \in 0..2 : ProbeAttempt(h, answered)
    \/ \E h \in Resolvers : ProbeReset(h)
    \/ \E h \in Resolvers : ProbeReactivate(h)
    \/ \E h \in Resolvers : ProbeEnable(h)

SpecReapply == InitReapply /\ [][NextReapply]_vars

\* C17: the deactivate and reactivate callbacks leave updateSerial and
\* previousConfigHash unchanged, and an update whose content is that of the
\* applied update is recognised as identical whatever deactivations and
\* reactivations happened since: it applies nothing and stores its serial
C17_CallbacksKeepSerialState ==
    /\ [][(\E q \in Running : DeactStep(q)) \/ (\E h \in Live : ReactStep(h))
            => UNCHANGED <<updateSerial, previousConfigHash>>]_vars
    /\ [][(/\ LockedStep(1)
           /\ Len(observed) = 1
           /\ observed[1].result = "applied"
           /\ call[1].update = observed[1].update)
            => /\ last'.result = "same"
               /\ lastOps' = <<>>
               /\ updateSerial' = call[1].serial
               /\ UNCHANGED <<previousConfigHash, currentConfig, serviceMux,
                              dnsMuxMap, hostDNS, handlers>>]_vars

\* the configuration sent again was recognised as identical while a group
\* is deactivated
C17_Witness ==
    /\ Len(observed) = Len(Twice)
    /\ observed[1].result = "applied"
    /\ observed[2].result = "same"
    /\ updateSerial = Len(Twice)
    /\ \E h \in Live :
          /\ handlers[h].pending = 1
          /\ handlers[h].disabled
          /\ \E i \in DOMAIN currentConfig.Domains : currentConfig.Domains[i].Disabled

----------------------------------------------------------------------------
(* C18: queries on a disabled resolver *)

\* C18: a query that enters ServeDNS while the resolver is disabled is
\* answered at once: it does not go on to contact an upstream server
C18_DisabledContactsNoUpstream ==
    [][\A q \in Running :
          (q.pc = "enter" /\ handlers[q.h].disabled)
          => queries' # Moved(q, [q EXCEPT !.pc = "exchange", !.idx = 1])]_vars

----------------------------------------------------------------------------
(* C19: the root zone *)

\* the calls of the sequence that applied their configuration
AppliedCalls == {k \in DOMAIN observed : observed[k].result = "applied"}

\* the last applied configuration designates a primary nameserver group
PrimaryDesignated ==
    /\ AppliedCalls # {}
    /\ LET update == observed[CHOOSE k \in AppliedCalls : \A j \in AppliedCalls : j <= k].update
       IN \E i \in DOMAIN update.NameServerGroups : update.NameServerGroups[i].Primary

\* the root zone is served by the handler built from the host's DNS addresses
HostFallbackActive ==
    /\ RootZone \in DOMAIN serviceMux
    /\ KindOf(serviceMux[RootZone]) = "host"

\* C19: between two calls, the root zone is registered in the mux if and only
\* if the last applied configuration designates a primary nameserver group
\* or the host fallback handler is active
C19_RootIffPrimaryOrFallback ==
    pc[1] = "idle" =>
        (RootZone \in DOMAIN serviceMux <=> (PrimaryDesignated \/ HostFallbackActive))

----------------------------------------------------------------------------
(* C20: an update that fails validation *)

\* a custom zone with an empty record list or with a record of a class other
\* than the default one
InvalidZones(update) ==
    \E i \in DOMAIN update.CustomZones :
        LET z == update.CustomZones[i] IN
        \/ Len(z.Records) = 0
        \/ \E j \in DOMAIN z.Records : z.Records[j].Class # DefaultClass

\* a non primary nameserver group, among those the server builds a handler
\* for, with an empty domain list or an empty domain element
InvalidGroups(update) ==
    \E i \in DOMAIN update.NameServerGroups :
        LET g == update.NameServerGroups[i] IN
        /\ HasUDP(g)
        /\ ~g.Primary
        /\ Len(g.Domains) = 0 \/ "" \in SeqToSet(g.Domains)

FailsValidation(update) == InvalidZones(update) \/ InvalidGroups(update)

\* C20: an UpdateDNSServer call that reaches applyConfiguration returns the
\* validation error exactly when its configuration fails validation, and then
\* it leaves the mux, the tracked handler map, the local records,
\* currentConfig, updateSerial and previousConfigHash unchanged
C20_InvalidUpdateChangesNothing ==
    [][(LockedStep(1) /\ hostManager
            /\ ~sameConfig(previousConfigHash, Hash(call[1].update)))
          => /\ last'.result = "invalid" <=> FailsValidation(call[1].update)
             /\ FailsValidation(call[1].update)
                   => UNCHANGED <<serviceMux, dnsMuxMap, localRecords, currentConfig,
                                  updateSerial, previousConfigHash>>]_vars

\* an update that fails validation was rejected on a server that has zones
\* registered, local records and an applied configuration
C20_Witness ==
    /\ Len(observed) >= 2
    /\ observed[1].result = "applied"
    /\ observed[2].result = "invalid"
    /\ last.result = "invalid"
    /\ updateSerial = 1
    /\ previousConfigHash = Hash(observed[1].update)
    /\ localRecords # EmptyMap
    /\ dnsMuxMap # EmptyMap
    /\ currentConfig = dnsConfigToHostDNSConfig(observed[1].update)

----------------------------------------------------------------------------
(* C21: the host configuration when the custom port is not supported *)

InitPort ==
    /\ \E unsupported \in BOOLEAN : InitAt(unsupported)
    /\ ~permanent /\ InitQueries /\ NotIOS /\ InitClient /\ InitObserved /\ InitElsewhere

\* one update with several groups, then queries, on a server whose service may
\* run on a port the host manager does not support
SpecPort == InitPort /\ [][NextCallbacks]_vars

\* C21: while the runtime port differs from the default port and the host
\* manager does not support custom ports, the configuration last handed to
\* applyDNSConfig has route-all = false, whichever of the update, the
\* deactivate callback and the reactivate callback handed it over
C21_UnsupportedPortNeverRouteAll ==
    (portUnsupported /\ hostDNS.state = "applied") => ~hostDNS.RouteAll

----------------------------------------------------------------------------
(* C22: two groups of one update with the same match domain *)

\* the groups of an update that register a handler for the non-root domain d
Claimants(update, d) ==
    {i \in DOMAIN update.NameServerGroups :
        /\ HasUDP(update.NameServerGroups[i])
        /\ ~update.NameServerGroups[i].Primary
        /\ d \in SeqToSet(update.NameServerGroups[i].Domains)}

\* the domains of an update that two or more groups register a handler for
Contested(update) ==
    {d \in CandidateZones(update) \ {RootZone} : Cardinality(Claimants(update, d)) >= 2}

Latest(S) == CHOOSE i \in S : \A j \in S : j <= i

\* C22: after an update that returned without an error, every non-root domain
\* that two or more of its groups claim is registered and tracked with the
\* handler of the group listed last among them, whatever was installed
\* before and whichever caller made the update
C22_LaterGroupWins ==
    [][\A c \in Callers :
          (LockedStep(c) /\ last'.result \in {"applied", "same"}) =>
             \A d \in Contested(call[c].update) :
                LET g == call[c].update.NameServerGroups[Latest(Claimants(call[c].update, d))]
                IN /\ d \in DOMAIN dnsMuxMap' /\ d \in DOMAIN serviceMux'
                   /\ dnsMuxMap'[d] = serviceMux'[d]
                   /\ dnsMuxMap'[d] # LocalResolver
                   /\ handlers'[dnsMuxMap'[d]].nsGroup = g]_vars

----------------------------------------------------------------------------
(* C23: nameservers that are not UDP ones *)

\* the handlers that are registered in the mux or tracked in dnsMuxMap
InUse == {serviceMux[z] : z \in DOMAIN serviceMux} \cup {dnsMuxMap[z] : z \in DOMAIN dnsMuxMap}

\* the addresses of the nameservers of a group with the given property
Addresses(g, udp) ==
    {getNSHostPort(g.NameServers[n]) :
        n \in {k \in DOMAIN g.NameServers :
                 (g.NameServers[k].NSType = UDPNameServerType) = udp}}

\* the groups of the updates applied so far that have no UDP nameserver
Rejected ==
    UNION {{observed[k].update.NameServerGroups[i] :
               i \in {j \in DOMAIN observed[k].update.NameServerGroups :
                        ~HasUDP(observed[k].update.NameServerGroups[j])}} :
           k \in AppliedCalls}

\* C23: the upstream list of every handler of a nameserver group that is
\* registered or tracked is not empty and holds UDP nameservers of its group
\* only; a group whose nameserver list is empty or has no UDP nameserver
\* has no handler that is registered, tracked or running, and no RegisterMux
\* call is made for it
C23_OnlyUDPUpstreams ==
    /\ \A h \in InUse \ {LocalResolver} :
          handlers[h].kind = "group" =>
             /\ handlers[h].upstreamServers # <<>>
             /\ SeqToSet(handlers[h].upstreamServers) = Addresses(handlers[h].nsGroup, TRUE)
             /\ SeqToSet(handlers[h].upstreamServers) \cap Addresses(handlers[h].nsGroup, FALSE) = {}
    /\ \A h \in DOMAIN handlers :
          (handlers[h].kind = "group" /\ ~HasUDP(handlers[h].nsGroup)) =>
             /\ handlers[h].stopped
             /\ h \notin InUse
             /\ \A i \in DOMAIN lastOps : lastOps[i].op = "RegisterMux" => lastOps[i].h # h
    /\ \A g \in Rejected : \A h \in InUse \ {LocalResolver} : handlers[h].nsGroup # g

\* an update with a group without nameservers, a group with one TCP
\* nameserver and a group with a UDP nameserver was applied, and so was an
\* update with a group that mixes a TCP and a UDP nameserver, whose handler
\* is registered
C23_Witness ==
    /\ \E k \in AppliedCalls : observed[k].update = CfgNoServers
    /\ last.result = "applied"
    /\ "e." \notin DOMAIN serviceMux /\ "d." \notin DOMAIN serviceMux
    /\ \E h \in DOMAIN handlers : handlers[h].stopped /\ ~HasUDP(handlers[h].nsGroup)
    /\ \E h \in InUse \ {LocalResolver} :
          /\ Addresses(handlers[h].nsGroup, FALSE) # {}
          /\ Len(handlers[h].upstreamServers) = 1

----------------------------------------------------------------------------
(* C24: the order of the steps of a connection attempt *)

\* the steps of operation in the order of the code
Order == <<"Management", "Login", "Signal", "Engine">>

\* where operation stands before each step
Position == <<"mgm", "login", "signal", "engine">>

\* the step just taken failed: operation returned an error
StepFailed == client'.pc \in {"backoff", "afterRetry"} /\ client'.err # "nil"

\* C24: the steps of every attempt are a prefix of Management, Login, Signal,
\* Engine, each taken where the previous one succeeded; a step that fails
\* ends the attempt, and no step follows until operation starts the next
\* attempt; the status becomes Connected only in the step in which
\* Engine.Start returns without error, after the three earlier steps, with
\* Management and Signal marked connected
C24_StepsInOrder ==
    /\ [](client.steps = SubSeq(Order, 1, Len(client.steps)))
    /\ [][client'.steps # client.steps =>
            \/ client.pc = "operation" /\ client'.steps = <<>>
                  /\ client'.attempts = client.attempts + 1
            \/ /\ Len(client.steps) < Len(Order)
               /\ client.pc = Position[Len(client.steps) + 1]
               /\ client'.steps = Append(client.steps, Order[Len(client.steps) + 1])
               /\ client'.attempts = client.attempts
               /\ \/ StepFailed
                  \/ client'.pc = (Position \o <<"connected">>)[Len(client.steps) + 2]]_vars
    /\ [][client.pc \in {"backoff", "afterRetry", "deferred", "done"} =>
            client'.steps = client.steps]_vars
    /\ [][(client'.pc = "signal" /\ client.pc # "signal") =>
            client.pc = "login" /\ client'.mgmClient /\ recorder'.management]_vars
    /\ [][(client'.pc = "engine" /\ client.pc # "engine") =>
            client.pc = "signal" /\ client'.mgmClient /\ client'.signalClient
               /\ recorder'.management /\ recorder'.signal]_vars
    /\ [][(Status(state').status = "Connected" /\ state' # state) =>
            /\ client.pc = "engine" /\ client'.pc = "connected"
            /\ client'.steps = Order
            /\ client'.engine = "running"
            /\ client.mgmClient /\ client.signalClient
            /\ recorder.management /\ recorder.signal]_vars

\* a second attempt is connected after the first one failed at a step
C24_Witness ==
    /\ client.attempts = 2
    /\ client.err = "other"
    /\ client.pc = "connected"
    /\ client.steps = Order
    /\ state = [status |-> "Connected", err |-> "nil"]
    /\ recorder.management /\ recorder.signal

----------------------------------------------------------------------------
(* C25: the engine's context is cancelled after a successful start *)

\* operation goes on after <-engineCtx.Done() while the context passed to
\* runClient is live: the engine has cancelled its own context
EngineFired ==
    /\ client.pc = "connected" /\ client.engineCtx = "done" /\ runCtx = "live"
    /\ client'.pc # "connected"

\* operation returns an error that backoff.Retry retries: operation runs
\* again after the next interval
Restarts == client'.pc = "backoff" /\ client'.err # "nil"

\* C25 as stated: whenever the engine's context is cancelled after a
\* successful start while the outer context is live, runClient stops the
\* engine and restarts
C25_CancelRestarts ==
    [][EngineFired => (client'.engine = "stopped" /\ Restarts)]_vars

\* C25: whenever the engine's context is cancelled after a successful start
\* while the outer context is live, runClient stops the engine; it restarts
\* if the state holds ErrResetConnection or engine.Stop failed, and
\* otherwise operation returns nil and the retry loop ends
C25_ResetRestarts ==
    [][EngineFired =>
          /\ client'.engine = "stopped"
          /\ IF Status(state).err = "ErrResetConnection" \/ client'.err = "other"
             THEN Restarts
             ELSE client'.pc = "afterRetry" /\ client'.err = "nil"]_vars

\* after a connection that the engine asked to reset, the second attempt
\* has begun
C25_Witness ==
    /\ client.attempts = 2
    /\ client.err = "ErrResetConnection"
    /\ client.engine = "none"
    /\ client.pc = "mgm"
    /\ runCtx = "live"
    /\ state = [status |-> "Connecting", err |-> "nil"]

----------------------------------------------------------------------------
(* C26: a connection attempt that fails *)

\* operation begins a further attempt once the attempts counted have reached
\* their bound; the attempt is not counted
operationAgain ==
    /\ client.pc = "operation"
    /\ runCtx = "live"
    /\ client.attempts = MaxAttempts
    /\ state' = Set(state, "Connecting")
    /\ client' = [client EXCEPT !.pc = "mgm", !.steps = <<>>, !.engineCtx = "live",
                                !.engine = "none"]
    /\ UNCHANGED <<recorder, runCtx, serverVars, resolverVars, observed, management, firewall, daemon>>

\* the steps of the goroutine that runs runClient
RunSteps ==
    \/ \E keyOk \in BOOLEAN, sshOk \in BOOLEAN : runClient(keyOk, sshOk)
    \/ operation
    \/ operationAgain
    \/ \E ok \in BOOLEAN : ConnectManagement(ok)
    \/ \E outcome \in {"ok", "PermissionDenied", "other"} : Login(outcome)
    \/ \E ok \in BOOLEAN : ConnectSignal(ok)
    \/ \E ok \in BOOLEAN : EngineStart(ok)
    \/ \E stopOk \in BOOLEAN : EngineDone(stopOk)
    \/ \E expired \in BOOLEAN : Backoff(expired)
    \/ AfterRetry
    \/ Deferred

\* runClient with any number of attempts
NextRetry ==
    \/ RunSteps
    \/ \E reset \in BOOLEAN : EngineCancel(reset)
    \/ Cancel

\* the goroutine of runClient is scheduled as long as it has a step to take
RunFairness == WF_vars(RunSteps)

SpecRetry == InitRunClient /\ [][NextRetry]_vars /\ RunFairness

\* a step of an attempt fails with an error other than PermissionDenied
AttemptFails ==
    /\ client.pc \in SeqToSet(Position)
    /\ client'.pc \notin SeqToSet(Position) \cup {"connected"}
    /\ client'.err # "PermissionDenied"

\* what the deferred functions of operation leave: the engine's context is
\* cancelled, the clients are closed, the connection marks are cleared
Released ==
    /\ client'.engineCtx = "done"
    /\ ~client'.mgmClient /\ ~client'.signalClient
    /\ ~recorder'.management /\ ~recorder'.signal

\* backoff.Retry has returned the error of the last attempt because the total
\* window of the backoff has elapsed
WindowElapsed == client.pc = "afterRetry" /\ client.err \notin {"nil", "PermissionDenied"}

Connected == Status(state).status = "Connected"

\* a failed attempt releases its resources and is retried after the backoff
\* interval
FailureRetried == [][AttemptFails => (Released /\ Restarts)]_vars

\* C26 as stated: a failed attempt releases its resources and is retried,
\* runClient does not exit: the wait for the next attempt always ends in the
\* next attempt
C26_FailureNeverExits ==
    /\ FailureRetried
    /\ [][client.pc = "backoff" => client'.pc \in {"backoff", "operation"}]_vars

\* C26: a failed attempt releases its resources and is retried under the
\* backoff; unless the total window of the backoff elapses, the context is
\* cancelled, Login is denied or the failures keep recurring, the status
\* eventually is Connected
C26_FailureRetriedInWindow ==
    /\ FailureRetried
    /\ [][client.pc = "backoff" =>
            client'.pc \in {"backoff", "operation"} \/ (client'.pc = "afterRetry" /\ WindowElapsed')]_vars
    /\ (client.pc = "backoff") ~>
          \/ Connected
          \/ client.pc = "mgm" /\ client.err # "nil"
          \/ WindowElapsed
          \/ runCtx = "done"
    /\ (client.pc = "mgm") ~>
          \/ Connected
          \/ client.pc = "backoff"
          \/ client.denied
          \/ runCtx = "done"

\* attempts have failed at a step and been retried beyond the attempts
\* counted, and the status is Connected
C26_Witness ==
    /\ client.attempts = MaxAttempts
    /\ client.err = "other"
    /\ Connected
    /\ runCtx = "live"
    /\ client.pc = "connected"

----------------------------------------------------------------------------
(* Management: DefaultAccountManager.GetPeer *)

NumPeers == 2

PeerIDs == 1..NumPeers

\* the users of the account with their roles
Users == [admin |-> "admin", u1 |-> "user", u2 |-> "user"]

\* the user ids a caller may present: the users of the account and a stranger
UserIDs == DOMAIN Users \cup {"stranger"}

\* the accounts: every peer is owned by a user of the account or was added
\* with a setup key (UserID ""), and each peer has a set of peers that the
\* policies of the account connect it to
Accounts ==
    {[Users |-> Users, Peers |-> [i \in PeerIDs |-> [ID |-> i, UserID |-> owner[i]]],
      acl |-> acl] :
        owner \in [PeerIDs -> DOMAIN Users \cup {""}], acl \in [PeerIDs -> SUBSET PeerIDs]}

\* the one account in the store
AccountID == "acc"

\* User.IsAdmin answering false for every role
IsAdminNever(user) == FALSE

\* User.IsAdmin
IsAdmin(user) == user.Role = "admin"

\* Account.FindUser: the user of that id, or an error
FindUser(account, userID) ==
    IF userID \in DOMAIN account.Users
    THEN [user |-> [Id |-> userID, Role |-> account.Users[userID]], err |-> "nil"]
    ELSE [user |-> "nil", err |-> "NotFound"]

\* Account.FindUserPeers: the peers whose UserID is the user's
FindUserPeers(account, userID) ==
    {i \in DOMAIN account.Peers : account.Peers[i].UserID = userID}

\* Account.getPeerConnectionResources: the peers the policies connect a peer to
getPeerConnectionResources(account, peerID) == account.acl[peerID]

\* no peer: the nil pointer
NilPeer == [ID |-> 0, UserID |-> ""]

Reply(peer, err) == [peer |-> peer, err |-> err]

\* DefaultAccountManager.GetPeer
GetPeer(account, accountID, peerID, userID) ==
    IF accountID # AccountID THEN Reply(NilPeer, "NotFound")
    ELSE LET found == FindUser(account, userID) IN
         IF found.err # "nil" THEN Reply(NilPeer, found.err)
         ELSE IF peerID \notin DOMAIN account.Peers THEN Reply(NilPeer, "NotFound")
         ELSE LET peer == account.Peers[peerID] IN
              IF IsAdmin(found.user) \/ peer.UserID = userID THEN Reply(peer, "nil")
              ELSE IF \E p \in FindUserPeers(account, userID) :
                         peerID \in getPeerConnectionResources(account, p)
              THEN Reply(peer, "nil")
              ELSE Reply(NilPeer, "Internal")

NoReply == Reply(NilPeer, "nil")

\* the one call of GetPeer made on the account; peer ids beyond those of the
\* account are unknown
GetPeerCall(accountID, peerID, userID) ==
    /\ management.reply = NoReply
    /\ management' = [management EXCEPT
                         !.call = [accountID |-> accountID, peerID |-> peerID,
                                   userID |-> userID],
                         !.reply = GetPeer(management.account, accountID, peerID, userID)]
    /\ UNCHANGED <<serverVars, resolverVars, clientVars, observed, firewall, daemon>>

InitAccounts ==
    /\ Init /\ ~permanent /\ InitQueries /\ NotIOS /\ InitClient /\ InitObserved
    /\ firewall = "none" /\ daemon = "none"
    /\ management \in {[account |-> a,
                         call |-> [accountID |-> "", peerID |-> 0, userID |-> ""],
                         reply |-> NoReply] : a \in Accounts}

NextAccounts ==
    \E accountID \in {AccountID, "other"}, peerID \in 1..(NumPeers + 1), userID \in UserIDs :
       GetPeerCall(accountID, peerID, userID)

SpecAccounts == InitAccounts /\ [][NextAccounts]_vars

\* a call has been made
Called == management.call.userID # ""

\* the user of the last call may see the peer asked for: the peer is in the
\* account, and the user is an admin of the account, owns the peer, or owns
\* a peer that the policies connect to it
MaySee ==
    LET a == management.account
        c == management.call
    IN /\ c.accountID = AccountID
       /\ c.peerID \in DOMAIN a.Peers
       /\ \/ c.userID \in DOMAIN a.Users /\ a.Users[c.userID] = "admin"
          \/ a.Peers[c.peerID].UserID = c.userID
          \/ \E p \in DOMAIN a.Peers :
                a.Peers[p].UserID = c.userID /\ c.peerID \in a.acl[p]

\* C27: GetPeer returns the peer asked for, without an error, exactly when
\* the peer is in the account and the user is an admin, owns the peer or
\* owns a peer with policy access to it; otherwise it returns an error and
\* no peer
C27_GetPeerAccess ==
    Called =>
       IF MaySee
       THEN management.reply = Reply(management.account.Peers[management.call.peerID], "nil")
       ELSE management.reply.peer = NilPeer /\ management.reply.err # "nil"

\* a user who is no admin and does not own the peer was given it because a
\* peer of theirs has policy access to it
C27_Witness ==
    /\ Called
    /\ management.call.userID = "u1"
    /\ management.reply.err = "nil"
    /\ management.reply.peer.UserID # "u1"
    /\ management.reply.peer.ID = management.call.peerID

----------------------------------------------------------------------------
(* Management: Peer.LoginExpired *)

\* instants are 0..MaxTime; a Duration holds -MaxDuration..MaxDuration
MaxTime == 4

MaxDuration == 2

\* Peer.AddedWithSSOLogin
AddedWithSSOLogin(p) == p.UserID # ""

\* Time.Sub: the difference, or the largest or smallest Duration when the
\* difference does not fit
Sub(t, u) ==
    IF t - u > MaxDuration THEN MaxDuration
    ELSE IF t - u < -MaxDuration THEN -MaxDuration
    ELSE t - u

\* a LoginExpired that takes a login to be valid at the instant it expires
LoginExpiredStrict(p, expiresIn, now) ==
    IF ~AddedWithSSOLogin(p) \/ ~p.LoginExpirationEnabled
    THEN [expired |-> FALSE, timeLeft |-> 0]
    ELSE LET timeLeft == Sub(p.LastLogin + expiresIn, now)
         IN [expired |-> timeLeft < 0, timeLeft |-> timeLeft]

\* Peer.LoginExpired, with the instant time.Now() returns
LoginExpired(p, expiresIn, now) ==
    IF ~AddedWithSSOLogin(p) \/ ~p.LoginExpirationEnabled
    THEN [expired |-> FALSE, timeLeft |-> 0]
    ELSE LET expiresAt == p.LastLogin + expiresIn
             timeLeft == Sub(expiresAt, now)
         IN [expired |-> timeLeft <= 0, timeLeft |-> timeLeft]

\* the peers: added by a user or with a setup key, with or without login
\* expiration, last logged in at any instant
LoginPeers ==
    {[UserID |-> u, LoginExpirationEnabled |-> e, LastLogin |-> t] :
        u \in {"", "u1"}, e \in BOOLEAN, t \in 0..MaxTime}

InitLogin ==
    /\ Init /\ ~permanent /\ InitQueries /\ NotIOS /\ InitClient /\ InitObserved
    /\ firewall = "none" /\ daemon = "none"
    /\ management \in {[peer |-> p, expiresIn |-> d, now |-> n, called |-> FALSE,
                         reply |-> [expired |-> FALSE, timeLeft |-> 0]] :
                           p \in LoginPeers, d \in 0..MaxDuration, n \in 0..MaxTime}

\* the call of LoginExpired on the peer
LoginExpiredCall ==
    /\ ~management.called
    /\ management' = [management EXCEPT
                         !.called = TRUE,
                         !.reply = LoginExpired(management.peer, management.expiresIn,
                                                management.now)]
    /\ UNCHANGED <<serverVars, resolverVars, clientVars, observed, firewall, daemon>>

NextLogin == LoginExpiredCall

SpecLogin == InitLogin /\ [][NextLogin]_vars

\* C28: LoginExpired returns (false, 0) for a peer that was not added by an
\* SSO login or whose login expiration is disabled; for any other peer it
\* returns expired = true exactly when LastLogin + expiresIn is not after
\* the current time
C28_LoginExpired ==
    management.called =>
       IF management.peer.UserID = "" \/ ~management.peer.LoginExpirationEnabled
       THEN management.reply = [expired |-> FALSE, timeLeft |-> 0]
       ELSE management.reply.expired <=>
               ~(management.peer.LastLogin + management.expiresIn > management.now)

\* the login of a peer added by a user expires at this very instant
C28_Witness ==
    /\ management.called
    /\ management.peer.UserID # "" /\ management.peer.LoginExpirationEnabled
    /\ management.expiresIn > 0
    /\ management.reply = [expired |-> TRUE, timeLeft |-> 0]
    /\ management.peer.LastLogin + management.expiresIn = management.now

\* ---------------------------------------------------------------------
\* The firewall backend (checkfw.Check) and the routing manager over it
\* ---------------------------------------------------------------------

\* the routes whose rules the manager installs
NumPairs == 2

\* FWType
UNKNOWN == 0

IPTABLES == 1

NFTABLES == 2

SKIP_NFTABLES_ENV == "NB_SKIP_NFTABLES_CHECK"

\* what the host answers to the probes of Check: whether nf.ListChains()
\* succeeds, the value of the environment variable (empty when unset),
\* whether an iptables client can be created and whether it lists the chains
\* of the filter table
HostProbes ==
    [nfListChains : BOOLEAN, env : {"", "true", "TRUE", "false"},
     iptablesNew : BOOLEAN, iptablesListFilter : BOOLEAN]

\* os.Getenv
Getenv(host, name) == IF name = SKIP_NFTABLES_ENV THEN host.env ELSE ""

\* isIptablesClientAvailable
isIptablesClientAvailable(host) == host.iptablesListFilter

\* a Check that does not read the environment
CheckAnyEnv(host) ==
    IF host.nfListChains THEN NFTABLES
    ELSE IF ~host.iptablesNew THEN UNKNOWN
    ELSE IF isIptablesClientAvailable(host) THEN IPTABLES
    ELSE UNKNOWN

\* checkfw.Check
Check(host) ==
    IF host.nfListChains /\ Getenv(host, SKIP_NFTABLES_ENV) # "true" THEN NFTABLES
    ELSE IF ~host.iptablesNew THEN UNKNOWN
    ELSE IF isIptablesClientAvailable(host) THEN IPTABLES
    ELSE UNKNOWN

\* the formats of the rule keys, and the keys of the default rules
ForwardingFormat == "forwarding"

InForwardingFormat == "inForwarding"

NatFormat == "nat"

InNatFormat == "inNat"

Ipv4Forwarding == "ipv4Forwarding"

ipv4Nat == "ipv4Nat"

\* genKey: the format filled in with the ID of the pair
genKey(format, input) == [format |-> format, ID |-> input]

PairIDs == 1..NumPairs

\* the routing pairs
Pairs == [ID : PairIDs, masquerade : BOOLEAN]

\* a rule that the host stores without its key
RuleUnkeyed(key, chain) == [key |-> [format |-> "", ID |-> 0], chain |-> chain]

\* the rule of a key as the host stores it: the key is its comment (iptables)
\* or its user data (nftables)
Rule(key, chain) == [key |-> key, chain |-> chain]

\* the containers of a backend: the table and the two chains of nftables, the
\* two chains of iptables
DefaultContainers(fwType) ==
    IF fwType = NFTABLES THEN {"table", "forwardingChain", "natChain"}
    ELSE {"forwardingChain", "natChain"}

\* the default rules of a backend: nftables has the forwarding rule, iptables
\* the jumps to its two chains
DefaultRules(fwType) ==
    IF fwType = NFTABLES
    THEN {Rule(genKey(Ipv4Forwarding, 0), "forwardingChain")}
    ELSE {Rule(genKey(Ipv4Forwarding, 0), "forwardingChain"),
          Rule(genKey(ipv4Nat, 0), "natChain")}

\* the rules of a pair: the forwarding rules of both directions, and the nat
\* rules of both directions when the pair masquerades
PairRules(pair) ==
    {Rule(genKey(ForwardingFormat, pair.ID), "forwardingChain"),
     Rule(genKey(InForwardingFormat, pair.ID), "forwardingChain")}
    \cup (IF pair.masquerade
          THEN {Rule(genKey(NatFormat, pair.ID), "natChain"),
                Rule(genKey(InNatFormat, pair.ID), "natChain")}
          ELSE {})

\* the rules a pair can have, masquerading or not
AllPairRules(id) == PairRules([ID |-> id, masquerade |-> TRUE])

\* the rule map of the manager: no rules, the rules of S put under their
\* keys, the keys of K deleted
NoRules == [k \in {} |-> Rule(k, "")]

PutRules(rules, S) ==
    [k \in DOMAIN rules \cup {r.key : r \in S} |->
        IF \E r \in S : r.key = k THEN CHOOSE r \in S : r.key = k ELSE rules[k]]

Delete(rules, K) == [k \in DOMAIN rules \ K |-> rules[k]]

\* a manager that holds nothing in memory
newManager == [ready |-> FALSE, rules |-> NoRules]

\* the rules of the host without every copy of the rules in S
Without(rules, S) == [r \in DOMAIN rules \ S |-> rules[r]]

\* the rules of the host with one more copy of each rule in S
With(rules, S) == rules (+) SetToBag(S)

\* RestoreOrCreateContainers: nothing to do for a manager that holds its
\* containers; otherwise the containers the host lacks are created, the rule
\* map is rebuilt from the rules the host has under their keys, and the
\* default rules that were not found are created
RestoreOrCreateContainers(f) ==
    IF f.manager.ready THEN f
    ELSE LET found == BagToSet(f.rules)
             missing == DefaultRules(f.fwType) \ found
         IN [f EXCEPT
               !.containers = @ \cup DefaultContainers(f.fwType),
               !.rules = With(@, missing),
               !.manager = [ready |-> TRUE,
                            rules |-> PutRules(PutRules(NoRules, found), missing)]]

\* InsertRoutingRules: each rule of the pair replaces the rule the map holds
\* under its key
InsertRoutingRules(f, pair) ==
    LET known == {f.manager.rules[r.key] :
                     r \in {q \in PairRules(pair) : q.key \in DOMAIN f.manager.rules}}
    IN [f EXCEPT
          !.rules = With(Without(@, known), PairRules(pair)),
          !.manager.rules = PutRules(@, PairRules(pair))]

\* RemoveRoutingRules: the rules of the pair the map holds are deleted from
\* the host and from the map
RemoveRoutingRules(f, pair) ==
    LET keys == {r.key : r \in AllPairRules(pair.ID)} \cap DOMAIN f.manager.rules
    IN [f EXCEPT
          !.rules = Without(@, {f.manager.rules[k] : k \in keys}),
          !.manager.rules = Delete(@, keys)]

\* before Check ran: the probes of the host, no backend, nothing installed
InitFirewall ==
    /\ Init /\ ~permanent /\ InitQueries /\ NotIOS /\ InitClient /\ InitObserved
    /\ management = "none" /\ daemon = "none"
    /\ firewall \in {[host |-> h, checked |-> FALSE, fwType |-> UNKNOWN,
                       containers |-> {}, rules |-> EmptyBag,
                       manager |-> newManager, op |-> "none",
                       rebuilt |-> FALSE] : h \in HostProbes}

\* the client checks the firewall of the host and creates the manager
CheckCall ==
    /\ ~firewall.checked
    /\ firewall' = [firewall EXCEPT !.checked = TRUE,
                                    !.fwType = Check(firewall.host),
                                    !.op = "Check"]
    /\ UNCHANGED <<serverVars, resolverVars, clientVars, observed, management, daemon>>

\* the backends the routing manager exists for
Supported == firewall.checked /\ firewall.fwType \in {IPTABLES, NFTABLES}

\* rebuilt records whether the call found a manager with nothing in memory
RestoreCall ==
    /\ Supported
    /\ firewall' = [RestoreOrCreateContainers(firewall) EXCEPT
                       !.op = "Restore", !.rebuilt = ~firewall.manager.ready]
    /\ UNCHANGED <<serverVars, resolverVars, clientVars, observed, management, daemon>>

InsertCall(pair) ==
    /\ Supported /\ firewall.manager.ready
    /\ firewall' = [InsertRoutingRules(firewall, pair) EXCEPT !.op = "Insert"]
    /\ UNCHANGED <<serverVars, resolverVars, clientVars, observed, management, daemon>>

RemoveCall(pair) ==
    /\ Supported /\ firewall.manager.ready
    /\ firewall' = [RemoveRoutingRules(firewall, pair) EXCEPT !.op = "Remove"]
    /\ UNCHANGED <<serverVars, resolverVars, clientVars, observed, management, daemon>>

\* the client restarts: the manager loses what it held in memory, the host
\* keeps its containers and rules
Restart ==
    /\ Supported /\ firewall.manager.ready
    /\ firewall' = [firewall EXCEPT !.manager = newManager, !.op = "Restart"]
    /\ UNCHANGED <<serverVars, resolverVars, clientVars, observed, management, daemon>>

NextFirewall ==
    \/ CheckCall
    \/ RestoreCall
    \/ \E pair \in Pairs : InsertCall(pair)
    \/ \E pair \in Pairs : RemoveCall(pair)
    \/ Restart

SpecFirewall == InitFirewall /\ [][NextFirewall]_vars

\* C30: Check answers NFTABLES when the nftables interface is usable and
\* NB_SKIP_NFTABLES_CHECK is not "true", otherwise IPTABLES when an iptables
\* client can be created and lists the filter table, otherwise UNKNOWN
C30_CheckSelectsBackend ==
    firewall.checked =>
       firewall.fwType =
          IF firewall.host.nfListChains /\ firewall.host.env # "true" THEN NFTABLES
          ELSE IF firewall.host.iptablesNew /\ firewall.host.iptablesListFilter
               THEN IPTABLES
          ELSE UNKNOWN

\* nftables is usable, the flag skips it and iptables is chosen
C30_Witness ==
    /\ firewall.checked
    /\ firewall.host.nfListChains /\ firewall.host.env = "true"
    /\ firewall.fwType = IPTABLES

\* the manager and the host agree: the containers exist, no rule of the host
\* has a second copy, and the map holds exactly the rules of the host, each
\* under its key
InStep(f) ==
    /\ DefaultContainers(f.fwType) \subseteq f.containers
    /\ \A r \in DefaultRules(f.fwType) : CopiesIn(r, f.rules) = 1
    /\ \A r \in BagToSet(f.rules) :
          /\ CopiesIn(r, f.rules) = 1
          /\ r.key \in DOMAIN f.manager.rules
          /\ f.manager.rules[r.key] = r
    /\ \A k \in DOMAIN f.manager.rules : BagIn(f.manager.rules[k], f.rules)

\* the rules of pairs that the host has
Installed(f) ==
    {r \in BagToSet(f.rules) : r.key.format \in {ForwardingFormat, InForwardingFormat,
                                                   NatFormat, InNatFormat}}

MaxCommands == 3

\* a client run as the Server starts it: RunClient on a context of its own
NewRun(ctx) == [ctx |-> ctx, pc |-> "operation", err |-> "nil"]

\* context.WithCancel(s.rootCtx): one more live context, named by its index
WithCancel(d) == [d EXCEPT !.ctxs = Append(@, "live")]

\* the cancel function kept in s.actCancel, nil when there is none
actCancel(d) ==
    IF d.actCancel = 0 THEN d ELSE [d EXCEPT !.ctxs[d.actCancel] = "done"]

\* an Up that does not look at the status
UpAnyStatus(d, st) ==
    IF Status(st).err # "nil"
    THEN [d |-> d, err |-> Status(st).err, launched |-> FALSE]
    ELSE LET c == WithCancel(actCancel(d))
             e == [c EXCEPT !.actCancel = Len(c.ctxs)]
         IN IF ~e.config
            THEN [d |-> e, err |-> "config is not defined", launched |-> FALSE]
            ELSE [d |-> [e EXCEPT !.runs = Append(@, NewRun(e.actCancel))],
                  err |-> "nil", launched |-> TRUE]

\* Server.Up, under s.mutex: the Server after it, the error it returns and
\* whether it started RunClient
Up(d, st) ==
    IF Status(st).err # "nil"
    THEN [d |-> d, err |-> Status(st).err, launched |-> FALSE]
    ELSE IF Status(st).status # "Idle"
    THEN [d |-> d, err |-> "up already in progress", launched |-> FALSE]
    ELSE LET c == WithCancel(actCancel(d))
             e == [c EXCEPT !.actCancel = Len(c.ctxs)]
         IN IF ~e.config
            THEN [d |-> e, err |-> "config is not defined", launched |-> FALSE]
            ELSE [d |-> [e EXCEPT !.runs = Append(@, NewRun(e.actCancel))],
                  err |-> "nil", launched |-> TRUE]

\* Server.Start, under s.mutex, with what UpdateConfig finds: the
\* configuration ("found"), none yet ("NotFound", created or not) or an error
Start(d, st, found) ==
    IF Status(st).err # "nil"
    THEN [d |-> d, st |-> st, err |-> Status(st).err, launched |-> FALSE]
    ELSE IF Status(st).status # "Idle"
    THEN [d |-> d, st |-> st, err |-> "nil", launched |-> FALSE]
    ELSE LET c == WithCancel(d)
             e == [c EXCEPT !.actCancel = Len(c.ctxs)]
         IN CASE found = "NotFound" ->
                   [d |-> [e EXCEPT !.config = TRUE], st |-> Set(st, "NeedsLogin"),
                    err |-> "nil", launched |-> FALSE]
              [] found = "NotCreated" ->
                   [d |-> e, st |-> st, err |-> "other", launched |-> FALSE]
              [] found = "error" ->
                   [d |-> e, st |-> st, err |-> "other", launched |-> FALSE]
              [] OTHER ->
                   [d |-> [e EXCEPT !.config = TRUE,
                                    !.runs = Append(@, NewRun(e.actCancel))],
                    st |-> st, err |-> "nil", launched |-> TRUE]

\* Server.Down, under s.mutex
Down(d, st) ==
    IF d.actCancel = 0
    THEN [d |-> d, st |-> st, err |-> "service is not up"]
    ELSE [d |-> actCancel(d), st |-> Set(st, "Idle"), err |-> "nil"]

\* the first locked section of Login and of WaitSSOLogin: the context in
\* use is cancelled and a new one takes its place
Enter(d, op) ==
    LET c == WithCancel(actCancel(d))
    IN [c EXCEPT !.actCancel = Len(c.ctxs),
                 !.calls = @ \cup {[op |-> op, ctx |-> Len(c.ctxs), pc |-> "entered"]}]

\* the deferred function of Login and of WaitSSOLogin
loginReset(st) ==
    IF Status(st).err # "nil" \/ Status(st).status \notin {"NeedsLogin", "LoginFailed"}
    THEN Set(st, "Idle") ELSE st

\* the record of the last command: its name, its error and whether it
\* started a client run
Command(op, err, launched) == [op |-> op, err |-> err, launched |-> launched]

NewServer ==
    [actCancel |-> 0, ctxs |-> <<>>, config |-> FALSE, flow |-> FALSE,
     runs |-> <<>>, calls |-> {}, n |-> 0,
     last |-> Command("New", "nil", FALSE)]

InitDaemon ==
    /\ Init /\ ~permanent /\ InitQueries /\ NotIOS /\ InitClient /\ InitObserved
    /\ management = "none" /\ firewall = "none"
    /\ daemon = NewServer

\* what the daemon's actions leave alone
notDaemon == <<serverVars, resolverVars, client, recorder, runCtx, observed,
               management, firewall>>

UpCall ==
    /\ daemon.n < MaxCommands
    /\ LET r == Up(daemon, state)
       IN daemon' = [r.d EXCEPT !.n = @ + 1, !.last = Command("Up", r.err, r.launched)]
    /\ UNCHANGED <<state, notDaemon>>

StartCall(found) ==
    /\ daemon.n < MaxCommands
    /\ LET r == Start(daemon, state, found)
       IN /\ daemon' = [r.d EXCEPT !.n = @ + 1,
                                   !.last = Command("Start", r.err, r.launched)]
          /\ state' = r.st
    /\ UNCHANGED notDaemon

DownCall ==
    /\ daemon.n < MaxCommands
    /\ LET r == Down(daemon, state)
       IN /\ daemon' = [r.d EXCEPT !.n = @ + 1, !.last = Command("Down", r.err, FALSE)]
          /\ state' = r.st
    /\ UNCHANGED notDaemon

\* Login and WaitSSOLogin up to the end of their first locked section
EnterCall(op) ==
    /\ daemon.n < MaxCommands
    /\ daemon' = [Enter(daemon, op) EXCEPT !.n = @ + 1,
                                           !.last = Command(op, "nil", FALSE)]
    /\ UNCHANGED <<state, notDaemon>>

\* the call c of Login or WaitSSOLogin moves on, with the status it sets
Moves(c, at, status) ==
    /\ daemon' = [daemon EXCEPT !.calls = (@ \ {c}) \cup {[c EXCEPT !.pc = at]}]
    /\ state' = IF status = "" THEN state ELSE Set(state, status)
    /\ UNCHANGED notDaemon

\* Login: UpdateOrCreateConfig and the login without a key
LoginAttempt(c, outcome) ==
    /\ c \in daemon.calls /\ c.op = "Login" /\ c.pc = "entered"
    /\ CASE outcome = "configError" -> Moves(c, "deferred", "")
         [] outcome = "ok" ->
              /\ daemon' = [daemon EXCEPT !.config = TRUE,
                                !.calls = (@ \ {c}) \cup {[c EXCEPT !.pc = "deferred"]}]
              /\ state' = Set(state, "Idle")
              /\ UNCHANGED notDaemon
         [] OTHER ->
              /\ daemon' = [daemon EXCEPT !.config = TRUE,
                                !.calls = (@ \ {c}) \cup {[c EXCEPT !.pc = "flow"]}]
              /\ state' = Set(state, "Connecting")
              /\ UNCHANGED notDaemon

\* Login after a failed login without a key: the OAuth flow when there is no
\* setup key, the login with the setup key otherwise
LoginFlow(c, outcome) ==
    /\ c \in daemon.calls /\ c.op = "Login" /\ c.pc = "flow"
    /\ CASE outcome = "flowError" -> Moves(c, "deferred", "LoginFailed")
         [] outcome = "authInfoError" -> Moves(c, "deferred", "")
         [] outcome = "needsSSO" ->
              /\ daemon' = [daemon EXCEPT !.flow = TRUE,
                                !.calls = (@ \ {c}) \cup {[c EXCEPT !.pc = "deferred"]}]
              /\ state' = Set(state, "NeedsLogin")
              /\ UNCHANGED notDaemon
         [] outcome = "keyDenied" -> Moves(c, "deferred", "NeedsLogin")
         [] outcome = "keyFailed" -> Moves(c, "deferred", "LoginFailed")
         [] OTHER -> Moves(c, "deferred", "")

\* WaitSSOLogin after its first locked section: without a flow it returns
\* before its deferred function is set up
WaitEnter(c) ==
    /\ c \in daemon.calls /\ c.op = "WaitSSOLogin" /\ c.pc = "entered"
    /\ IF ~daemon.flow
       THEN /\ daemon' = [daemon EXCEPT !.calls = @ \ {c}]
            /\ UNCHANGED <<state, notDaemon>>
       ELSE Moves(c, "wait", "Connecting")

\* WaitSSOLogin: the user code, the wait for the token and the login with it
WaitToken(c, outcome) ==
    /\ c \in daemon.calls /\ c.op = "WaitSSOLogin" /\ c.pc = "wait"
    /\ CASE outcome = "badCode" -> Moves(c, "deferred", "LoginFailed")
         [] outcome = "canceled" -> Moves(c, "deferred", "")
         [] outcome = "waitError" -> Moves(c, "deferred", "LoginFailed")
         [] outcome = "loginDenied" -> Moves(c, "deferred", "NeedsLogin")
         [] outcome = "loginFailed" -> Moves(c, "deferred", "LoginFailed")
         [] OTHER -> Moves(c, "deferred", "")

\* the deferred function of Login and WaitSSOLogin, and their return
LoginReturn(c) ==
    /\ c \in daemon.calls /\ c.pc = "deferred"
    /\ daemon' = [daemon EXCEPT !.calls = @ \ {c}]
    /\ state' = loginReset(state)
    /\ UNCHANGED notDaemon

\* the run i moves on, with the error that ends its backoff.Retry
Run(i, at, err) == [daemon EXCEPT !.runs[i].pc = at, !.runs[i].err = err]

\* operation of the run i: the test of its context and one connection
\* attempt up to engine.Start
RunOperation(i, outcome) ==
    /\ i \in DOMAIN daemon.runs /\ daemon.runs[i].pc = "operation"
    /\ IF daemon.ctxs[daemon.runs[i].ctx] = "done"
       THEN /\ daemon' = Run(i, "afterRetry", "nil")
            /\ UNCHANGED state
       ELSE CASE outcome = "ok" ->
                    /\ daemon' = Run(i, "connected", "nil")
                    /\ state' = Set(state, "Connected")
               [] outcome = "PermissionDenied" ->
                    /\ daemon' = Run(i, "afterRetry", "PermissionDenied")
                    /\ state' = Wrap(Set(state, "NeedsLogin"), "PermissionDenied")
               [] OTHER ->
                    /\ daemon' = Run(i, "operation", "nil")
                    /\ state' = Wrap(Set(state, "Connecting"), "other")
    /\ UNCHANGED notDaemon

\* operation of the run i from <-engineCtx.Done() to its return: the context
\* of the run is done ("ctx"), or the engine cancelled its own, asking for a
\* reset of the connection ("reset") or not ("engine")
RunEngineDone(i, stopOk, cause) ==
    /\ i \in DOMAIN daemon.runs /\ daemon.runs[i].pc = "connected"
    /\ cause = "ctx" => daemon.ctxs[daemon.runs[i].ctx] = "done"
    /\ LET st == IF cause = "reset" THEN Wrap(state, "ErrResetConnection") ELSE state IN
       IF ~stopOk
       THEN /\ daemon' = Run(i, "operation", "nil")
            /\ state' = Wrap(st, "other")
       ELSE /\ daemon' = IF Status(st).err = "ErrResetConnection"
                         THEN Run(i, "operation", "nil")
                         ELSE Run(i, "afterRetry", "nil")
            /\ state' = st
    /\ UNCHANGED notDaemon

\* the run i after backoff.Retry
RunAfterRetry(i) ==
    /\ i \in DOMAIN daemon.runs /\ daemon.runs[i].pc = "afterRetry"
    /\ daemon' = Run(i, "deferred", daemon.runs[i].err)
    /\ state' = IF daemon.runs[i].err # "nil"
                THEN afterRetry(state, daemon.runs[i].err) ELSE state
    /\ UNCHANGED notDaemon

\* the deferred status reset of the run i, and its return
RunDeferred(i) ==
    /\ i \in DOMAIN daemon.runs /\ daemon.runs[i].pc = "deferred"
    /\ daemon' = Run(i, "done", daemon.runs[i].err)
    /\ state' = statusReset(state)
    /\ UNCHANGED notDaemon

Commands == 1..MaxCommands

NextDaemon ==
    \/ UpCall
    \/ \E found \in {"found", "NotFound", "NotCreated", "error"} : StartCall(found)
    \/ DownCall
    \/ \E op \in {"Login", "WaitSSOLogin"} : EnterCall(op)
    \/ \E c \in daemon.calls, outcome \in {"configError", "ok", "failed"} :
          LoginAttempt(c, outcome)
    \/ \E c \in daemon.calls,
          outcome \in {"flowError", "authInfoError", "needsSSO", "reused",
                       "keyDenied", "keyFailed", "keyOk"} : LoginFlow(c, outcome)
    \/ \E c \in daemon.calls : WaitEnter(c)
    \/ \E c \in daemon.calls,
          outcome \in {"badCode", "canceled", "waitError", "loginDenied",
                       "loginFailed", "ok"} : WaitToken(c, outcome)
    \/ \E c \in daemon.calls : LoginReturn(c)
    \/ \E i \in Commands, outcome \in {"ok", "PermissionDenied", "other"} :
          RunOperation(i, outcome)
    \/ \E i \in Commands, stopOk \in BOOLEAN, cause \in {"ctx", "engine", "reset"} :
          RunEngineDone(i, stopOk, cause)
    \/ \E i \in Commands : RunAfterRetry(i)
    \/ \E i \in Commands : RunDeferred(i)

SpecDaemon == InitDaemon /\ [][NextDaemon]_vars

\* the client runs that have not returned
Active(d) == {i \in DOMAIN d.runs : d.runs[i].pc # "done"}

\* the step is the command op
CommandStep(op) == daemon'.n = daemon.n + 1 /\ daemon'.last.op = op

\* C31: Up and Start start a client run only when the state holds no error
\* and the status is Idle; with no error and another status Up returns the
\* error "up already in progress" and Start returns nil, no run is started
\* and the runs, their contexts and the cancel function are left as they are
C31_UpOnlyWhenIdle ==
    [][\A op \in {"Up", "Start"} : CommandStep(op) =>
          /\ daemon'.last.launched <=> Len(daemon'.runs) = Len(daemon.runs) + 1
          /\ daemon'.last.launched =>
                /\ Status(state) = [status |-> "Idle", err |-> "nil"]
                /\ daemon'.runs[Len(daemon'.runs)].pc = "operation"
                /\ daemon'.ctxs[daemon'.runs[Len(daemon'.runs)].ctx] = "live"
          /\ (Status(state).err = "nil" /\ Status(state).status # "Idle") =>
                /\ daemon'.last.err = IF op = "Up" THEN "up already in progress" ELSE "nil"
                /\ daemon'.runs = daemon.runs
                /\ daemon'.ctxs = daemon.ctxs
                /\ daemon'.actCancel = daemon.actCancel
                /\ state' = state]_vars

\* Up is refused while a client run is connected
C31_Witness ==
    /\ daemon.last.op = "Up" /\ daemon.last.err = "up already in progress"
    /\ state.status = "Connected"
    /\ \E i \in Active(daemon) :
          daemon.runs[i].pc = "connected" /\ daemon.ctxs[daemon.runs[i].ctx] = "live"

\* C32: at most one client run started by the Server has not returned
C32_OneActiveRun == Cardinality(Active(daemon)) <= 1

\* ---------------------------------------------------------------------
\* Server.GetConfig
\* ---------------------------------------------------------------------

\* the mask GetConfig returns in place of a pre-shared key
Mask == "**********"

\* pre-shared keys: none, two keys, and a key that reads like the mask
PreSharedKeys == {"", "k1", "k2", Mask}

\* s.config: nil, or the URLs (nil or not) and the pre-shared key
NilConfig == [isNil |-> TRUE, ManagementURL |-> "nil", AdminURL |-> "nil", PreSharedKey |-> ""]

DaemonConfigs ==
    {NilConfig} \cup
    [isNil : {FALSE}, ManagementURL : {"nil", "https://m2"}, AdminURL : {"nil", "https://a2"},
     PreSharedKey : PreSharedKeys]

\* the Server as GetConfig reads it
ConfigServers ==
    [latestConfigInput : [ManagementURL : {"", "https://m1"}, AdminURL : {"", "https://a1"},
                          ConfigPath : {"/etc/netbird/config.json"}],
     logFile : {"/var/log/netbird/client.log"},
     config : DaemonConfigs]

\* a GetConfig that returns the pre-shared key as it is configured
GetConfigUnmasked(s) ==
    LET input == s.latestConfigInput
    IN [ManagementUrl |-> IF ~s.config.isNil /\ input.ManagementURL = ""
                             /\ s.config.ManagementURL # "nil"
                          THEN s.config.ManagementURL ELSE input.ManagementURL,
        AdminURL |-> IF ~s.config.isNil /\ s.config.AdminURL # "nil"
                     THEN s.config.AdminURL ELSE input.AdminURL,
        ConfigFile |-> input.ConfigPath,
        LogFile |-> s.logFile,
        PreSharedKey |-> IF s.config.isNil THEN "" ELSE s.config.PreSharedKey]

\* Server.GetConfig
GetConfig(s) ==
    LET input == s.latestConfigInput
        managementURL ==
            IF ~s.config.isNil /\ input.ManagementURL = "" /\ s.config.ManagementURL # "nil"
            THEN s.config.ManagementURL ELSE input.ManagementURL
        adminURL ==
            IF ~s.config.isNil /\ s.config.AdminURL # "nil"
            THEN s.config.AdminURL ELSE input.AdminURL
        preSharedKey ==
            IF s.config.isNil THEN ""
            ELSE IF s.config.PreSharedKey # "" THEN Mask ELSE ""
    IN [ManagementUrl |-> managementURL, AdminURL |-> adminURL,
        ConfigFile |-> input.ConfigPath, LogFile |-> s.logFile,
        PreSharedKey |-> preSharedKey]

NoResponse ==
    [ManagementUrl |-> "", AdminURL |-> "", ConfigFile |-> "", LogFile |-> "",
     PreSharedKey |-> ""]

\* a Server, and the same Server with another pre-shared key in its
\* configuration
InitConfig ==
    /\ Init /\ ~permanent /\ InitQueries /\ NotIOS /\ InitClient /\ InitObserved
    /\ management = "none" /\ firewall = "none"
    /\ daemon \in {[server |-> s, key |-> k, called |-> FALSE,
                     response |-> NoResponse, other |-> NoResponse] :
                       s \in ConfigServers, k \in PreSharedKeys}

\* GetConfig is called on both Servers
GetConfigCall ==
    /\ ~daemon.called
    /\ daemon' = [daemon EXCEPT
                     !.called = TRUE,
                     !.response = GetConfig(daemon.server),
                     !.other = IF daemon.server.config.isNil
                               THEN GetConfig(daemon.server)
                               ELSE GetConfig([daemon.server EXCEPT
                                                  !.config.PreSharedKey = daemon.key])]
    /\ UNCHANGED <<serverVars, resolverVars, clientVars, observed, management, firewall>>

NextConfig == GetConfigCall

SpecConfig == InitConfig /\ [][NextConfig]_vars

\* C40: the responses of GetConfig for two configurations that differ only
\* in the value of a non-empty pre-shared key are the same, the field holds
\* the mask or nothing, and it is empty exactly when no pre-shared key is
\* configured
C40_PreSharedKeyMasked ==
    daemon.called =>
       LET config == daemon.server.config
           configured == ~config.isNil /\ config.PreSharedKey # ""
       IN /\ (configured /\ daemon.key # "") => daemon.response = daemon.other
          /\ daemon.response.PreSharedKey \in {"", Mask}
          /\ daemon.response.PreSharedKey = "" <=> ~configured

\* two configurations with different keys, neither of them the mask, get
\* the same response
C40_Witness ==
    /\ daemon.called
    /\ ~daemon.server.config.isNil
    /\ daemon.server.config.PreSharedKey = "k1" /\ daemon.key = "k2"
    /\ daemon.response.PreSharedKey = Mask
    /\ daemon.response = daemon.other

\* ---------------------------------------------------------------------
\* runClient when its context is cancelled
\* ---------------------------------------------------------------------

\* C33: once the context of runClient is cancelled, operation returns
\* without connecting to Management, a running engine is stopped, and
\* runClient returns; when it has returned the status is Idle, or NeedsLogin
\* with no error, and the recorder shows Management and Signal disconnected
C33_CancelStopsClient ==
    /\ [][(runCtx = "done" /\ client.pc = "operation") =>
             /\ client'.pc \in {"operation", "afterRetry"}
             /\ client'.steps = client.steps /\ client'.attempts = client.attempts
             /\ ~client'.mgmClient
             /\ state' = state]_vars
    /\ [](runCtx = "done" /\ client.pc = "done" =>
             /\ client.engine # "running"
             /\ state \in {[status |-> "Idle", err |-> "nil"],
                           [status |-> "NeedsLogin", err |-> "nil"]}
             /\ ~recorder.management /\ ~recorder.signal)
    /\ (runCtx = "done" /\ client.engine = "running") ~> (client.engine = "stopped")
    /\ (runCtx = "done") ~> (client.pc = "done")

\* the context was cancelled while the engine ran: the engine is stopped,
\* runClient has returned and the status is Idle
C33_Witness ==
    /\ runCtx = "done" /\ client.pc = "done"
    /\ client.engine = "stopped"
    /\ client.steps = Order
    /\ state = [status |-> "Idle", err |-> "nil"]

----------------------------------------------------------------------------
(* Upstream handlers created by an UpdateDNSServer call *)

\* the upstream handlers the call of caller c created: those appended to
\* the handlers by the step that ran it under s.mux
Created == (Len(handlers) + 1)..Len(handlers')

\* after the step, handler id is registered in the multiplexer and tracked
\* in dnsMuxMap for one and the same domain
TrackedAfter(id) ==
    \E z \in DOMAIN dnsMuxMap' :
        /\ dnsMuxMap'[z] = id
        /\ z \in DOMAIN serviceMux'
        /\ serviceMux'[z] = id

\* C36: when an UpdateDNSServer call returns, with success or with an
\* error, every upstream handler created during the call is registered in
\* the multiplexer and tracked in dnsMuxMap, or has been stopped.
C36_CreatedTrackedOrStopped ==
    [][\A c \in Callers :
          LockedStep(c) =>
             \A id \in Created : handlers'[id].stopped \/ TrackedAfter(id)]_vars

----------------------------------------------------------------------------
(* Upstream callbacks while UpdateDNSServer replaces the handlers *)

\* the domain of CfgDomain, served by another nameserver
CfgDomainMoved ==
    Cfg(TRUE, <<Group(<<NS("10.0.0.4", "udp")>>, FALSE, <<"a.">>)>>, <<>>)

ReplaceConfigs == {CfgPrimary, CfgDomain, CfgDomainMoved}

InitReplace == Init /\ ~permanent /\ InitQueries /\ NotIOS /\ InitClient /\ InitObserved /\ InitElsewhere

\* the server receives updates one after the other while it serves queries,
\* one at a time, and while the probe loops of its upstream resolvers run
NextReplace ==
    \/ Initialize /\ UNCHANGED <<resolverVars, clientVars, observed, management, firewall, daemon>>
    \/ Stop /\ UNCHANGED <<resolverVars, clientVars, observed, management, firewall, daemon>>
    \/ \E update \in ReplaceConfigs :
          UpdateCheck(1, nCalls + 1, update) /\ UNCHANGED <<resolverVars, clientVars, observed, management, firewall, daemon>>
    \/ UpdateLocked(1) /\ UNCHANGED <<resolverVars, clientVars, observed, management, firewall, daemon>>
    \/ queries = EmptyBag /\ Dispatch
    \/ \E q \in Running : ServeEnter(q)
    \/ \E q \in Running, outcome \in Outcomes : Exchange(q, outcome)
    \/ \E q \in Running : checkUpstreamFails(q)
    \/ \E q \in Running : Deactivate(q)
    \/ \E h \in Resolvers, answered \in 0..2 : ProbeAttempt(h, answered)
    \/ \E h \in Resolvers : ProbeReset(h)
    \/ \E h \in Resolvers : ProbeReactivate(h)
    \/ \E h \in Resolvers : ProbeEnable(h)

SpecReplace == InitReplace /\ [][NextReplace]_vars

\* a step of the deactivate or of the reactivate callback of handler h
CallbackStep(h) ==
    \/ \E q \in Running : q.h = h /\ Deactivate(q)
    \/ ProbeReactivate(h)

\* the step registers handler h for a zone it was not registered for
Registers(h) ==
    \E z \in DOMAIN serviceMux' :
        /\ serviceMux'[z] = h
        /\ ~(z \in DOMAIN serviceMux /\ serviceMux[z] = h)

\* C34: an upstream handler that has been stopped is never registered in the
\* multiplexer again, and a deactivate or reactivate callback of a stopped
\* handler leaves the registrations in the multiplexer as they are.
C34_StoppedHandlerLeavesMux ==
    [][\A h \in DOMAIN handlers :
          handlers[h].stopped =>
             /\ ~Registers(h)
             /\ CallbackStep(h) => serviceMux' = serviceMux]_vars

\* the probe loop of handler h runs and has not yet called reactivate
Probing(h) == handlers[h].loop \in {"probing", "succeeded", "reset"}

\* handler h took the domain of entry i of currentConfig.Domains out of the
\* configuration: its removeIndex holds an index for the domain
DeactivatedBy(h, i) ==
    LET d == currentConfig.Domains[i].Domain IN
    /\ d \in DOMAIN handlers[h].removeIndex
    /\ handlers[h].removeIndex[d] # -1

\* RouteAll is off although the primary nameserver group is installed
RouteAllCleared ==
    /\ RootZone \in DOMAIN dnsMuxMap
    /\ dnsMuxMap[RootZone] # LocalResolver
    /\ handlers[dnsMuxMap[RootZone]].kind = "group"
    /\ ~currentConfig.RouteAll

\* C35: while the server runs, every Disabled domain of currentConfig, and a
\* RouteAll cleared by a deactivation, has a handler that deactivated it,
\* is not stopped and whose probe loop is running.
C35_DisabledHasProbeLoop ==
    ~ctxDone =>
       /\ \A i \in DOMAIN currentConfig.Domains :
             currentConfig.Domains[i].Disabled =>
                \E h \in DOMAIN handlers :
                   DeactivatedBy(h, i) /\ ~handlers[h].stopped /\ Probing(h)
       /\ RouteAllCleared =>
             \E h \in DOMAIN handlers :
                /\ handlers[h].kind = "group"
                /\ handlers[h].nsGroup.Primary
                /\ ~handlers[h].stopped
                /\ Probing(h)

\* ---------------------------------------------------------------------
\* Registration and login of peers (AddPeer, LoginPeer, deletePeers)
\* ---------------------------------------------------------------------

\* the WireGuard public keys the calls carry
PubKeys == {"wg1", "wg2"}

\* strings.ToUpper on the setup keys that occur
ToUpper(s) == IF s = "sk1" THEN "SK1" ELSE s

\* the setup keys a call may carry: none, the valid key in lower case, a
\* revoked key, and a key of no account
SetupKeyInputs == {"", "sk1", "SK2", "NOKEY"}

\* the setup keys of the account
SetupKeys ==
    [SK1 |-> [valid |-> TRUE, UsedTimes |-> 0, AutoGroups |-> {"g1"}],
     SK2 |-> [valid |-> FALSE, UsedTimes |-> 0, AutoGroups |-> {}]]

\* the groups users bring their peers into
AutoGroups == [admin |-> {}, u1 |-> {"g1", "All"}, u2 |-> {}]

\* a peer as AddPeer builds it
NewPeer(id, key, upperKey, userID, now) ==
    [ID |-> id, Key |-> key, SetupKey |-> upperKey, UserID |-> userID,
     LastLogin |-> now, LoginExpirationEnabled |-> userID # "",
     LoginExpired |-> FALSE, Meta |-> "m1", SSHKey |-> ""]

\* an account with the given peers, no peer in a group other than All
AccountOf(peers, blocked) ==
    [Users |-> Users, Blocked |-> blocked, Peers |-> peers, SetupKeys |-> SetupKeys,
     Groups |-> [All |-> DOMAIN peers, g1 |-> {}],
     Serial |-> 0, lastID |-> Cardinality(DOMAIN peers),
     Settings |-> [PeerLoginExpirationEnabled |-> TRUE, PeerLoginExpiration |-> 1]]

\* no peers
NoPeers == [i \in {} |-> NewPeer(i, "", "", "", 0)]

\* Account.FindPeerByPubKey: the id of a peer with that key, 0 when none
FindPeerByPubKey(account, key) ==
    IF \E i \in DOMAIN account.Peers : account.Peers[i].Key = key
    THEN CHOOSE i \in DOMAIN account.Peers : account.Peers[i].Key = key
    ELSE 0

\* Store.GetAccountByUser and Store.GetAccountBySetupKey, as AddPeer calls
\* them before it has the account lock
AccountFound(account, setupKey, userID) ==
    IF userID # "" THEN userID \in DOMAIN account.Users
    ELSE ToUpper(setupKey) \in DOMAIN account.SetupKeys

\* the groups AddPeer puts the new peer into: All, and the groups of the
\* user or of the setup key that exist and are not named All
GroupsToAdd(account, upperKey, userID) ==
    {"All"} \cup
    {g \in (IF userID # "" THEN AutoGroups[userID] ELSE account.SetupKeys[upperKey].AutoGroups) :
        g \in DOMAIN account.Groups /\ g # "All"}

\* what a call returns: the error and the id of the peer (0 for nil)
Returns(account, err, peer) == [account |-> account, err |-> err, peer |-> peer]

\* AddPeer after its test of the public key: the setup key is validated and
\* used, the peer is put into the groups and the account, the serial grows
registerPeer(account, setupKey, userID, key, now) ==
    LET upperKey == ToUpper(setupKey)
        addedByUser == userID # ""
        id == account.lastID + 1
        groups == GroupsToAdd(account, upperKey, userID)
    IN
    IF ~addedByUser /\ upperKey \notin DOMAIN account.SetupKeys
    THEN Returns(account, "NotFound", 0)
    ELSE IF ~addedByUser /\ ~account.SetupKeys[upperKey].valid
    THEN Returns(account, "PreconditionFailed", 0)
    ELSE Returns([account EXCEPT
                     !.SetupKeys = IF addedByUser THEN @
                                   ELSE [@ EXCEPT ![upperKey].UsedTimes = @ + 1],
                     !.Groups = [g \in DOMAIN @ |->
                                   IF g \in groups THEN @[g] \cup {id} ELSE @[g]],
                     !.Peers = [i \in DOMAIN @ \cup {id} |->
                                   IF i = id
                                   THEN NewPeer(id, key, upperKey, userID, now)
                                   ELSE @[i]],
                     !.Serial = @ + 1,
                     !.lastID = id],
                 "nil", id)

\* an AddPeer that registers a public key however often it is presented
AddPeerTwice(account, setupKey, userID, key, now) ==
    registerPeer(account, setupKey, userID, key, now)

\* AddPeer from the account lock on, with the account fetched again: a
\* public key that is registered is rejected, any other is registered
AddPeer(account, setupKey, userID, key, now) ==
    IF FindPeerByPubKey(account, key) # 0
    THEN Returns(account, "PreconditionFailed", 0)
    ELSE registerPeer(account, setupKey, userID, key, now)

\* User.IsBlocked
IsBlocked(account, user) == user.Id \in account.Blocked

\* checkIfPeerOwnerIsBlocked: the owner of a peer added by a user must exist
\* and must not be blocked
checkIfPeerOwnerIsBlocked(peer, account) ==
    IF AddedWithSSOLogin(peer)
    THEN LET found == FindUser(account, peer.UserID) IN
         IF found.err # "nil" THEN "PermissionDenied"
         ELSE IF IsBlocked(account, found.user) THEN "PermissionDenied"
         ELSE "nil"
    ELSE "nil"

\* a checkAuth that accepts any user
checkAuthAnyUser(loginUserID, peer) ==
    IF loginUserID = "" THEN "PermissionDenied" ELSE "nil"

\* checkAuth
checkAuth(loginUserID, peer) ==
    IF loginUserID = "" THEN "PermissionDenied"
    ELSE IF peer.UserID # loginUserID THEN "Unauthenticated"
    ELSE "nil"

\* peerLoginExpired
peerLoginExpired(peer, account, now) ==
    LET expired == /\ account.Settings.PeerLoginExpirationEnabled
                   /\ LoginExpired(peer, account.Settings.PeerLoginExpiration, now).expired
    IN expired \/ peer.LoginExpired

\* Peer.UpdateLastLogin
UpdateLastLogin(peer, now) == [peer EXCEPT !.LastLogin = now, !.LoginExpired = FALSE]

\* Account.UpdatePeer
UpdatePeer(account, peer) == [account EXCEPT !.Peers[peer.ID] = peer]

\* what LoginPeer returns and does: the stored account, the error, the peer
\* and whether a network map is returned, the calls of Store.SaveAccount
\* that succeeded and the calls of updateAccountPeers
LoginResult(stored, err, peer, saves, updates) ==
    [account |-> stored, err |-> err, peer |-> peer, networkMap |-> err = "nil",
     saves |-> saves, updates |-> updates]

\* LoginPeer from the account lock on, for a public key the store knew when
\* the call came in: login is [WireGuardPubKey, UserID, Meta, SSHKey]; the
\* account in hand is a copy that reaches the store with Store.SaveAccount
LoginPeer(stored, login, now, saveOk) ==
    LET id == FindPeerByPubKey(stored, login.WireGuardPubKey) IN
    IF id = 0 THEN LoginResult(stored, "Unauthenticated", 0, 0, 0)
    ELSE
    LET peer == stored.Peers[id]
        blocked == checkIfPeerOwnerIsBlocked(peer, stored)
        expired == peerLoginExpired(peer, stored, now)
        auth == IF expired THEN checkAuth(login.UserID, peer) ELSE "nil"
        p1 == IF expired THEN UpdateLastLogin(peer, now) ELSE peer
        metaNew == login.Meta # p1.Meta
        p2 == IF metaNew THEN [p1 EXCEPT !.Meta = login.Meta] ELSE p1
        sshNew == login.SSHKey # "" /\ login.SSHKey # p2.SSHKey
        p3 == IF sshNew THEN [p2 EXCEPT !.SSHKey = login.SSHKey] ELSE p2
        account == UpdatePeer(stored, p3)
        shouldStoreAccount == expired \/ metaNew
        n == (IF sshNew THEN 1 ELSE 0)
    IN
    IF blocked # "nil" THEN LoginResult(stored, blocked, 0, 0, 0)
    ELSE IF auth # "nil" THEN LoginResult(stored, auth, 0, 0, 0)
    ELSE IF (sshNew \/ shouldStoreAccount) /\ ~saveOk
    THEN LoginResult(stored, "Internal", 0, 0, 0)
    ELSE LoginResult(IF sshNew \/ shouldStoreAccount THEN account ELSE stored,
                     "nil", id,
                     n + (IF shouldStoreAccount THEN 1 ELSE 0),
                     n + (IF expired THEN 1 ELSE 0))

\* a call of AddPeer or LoginPeer and where it stands
PeerCall(op, setupKey, userID, key, at, err, peer) ==
    [op |-> op, setupKey |-> setupKey, userID |-> userID, key |-> key,
     pc |-> at, err |-> err, peer |-> peer]

NoPeerCall == PeerCall("", "", "", "", "idle", "nil", 0)

\* the account before any call: without a peer, or with the peer of user u1
RegisterAccounts ==
    {AccountOf(NoPeers, {}),
     AccountOf([i \in {1} |-> NewPeer(1, "wg1", "", "u1", 0)], {})}

InitRegister ==
    /\ Init /\ ~permanent /\ InitQueries /\ NotIOS /\ InitClient /\ InitObserved
    /\ firewall = "none" /\ daemon = "none"
    /\ management \in {[account |-> a, calls |-> [c \in Callers |-> NoPeerCall],
                         now |-> MaxTime] : a \in RegisterAccounts}

notManagement == <<serverVars, resolverVars, clientVars, observed, firewall, daemon>>

\* caller c has not called yet
Begins(c) == management.calls[c].pc = "idle"

\* the call of caller c has returned: its error and the peer it returns
CallReturned(mine, err, peer) ==
    PeerCall(mine.op, "", "", mine.key, "done", err, peer)

\* AddPeer up to the account lock: an auth method is required, and the
\* account is looked up by the user or by the setup key
AddPeerEnter(c, op, setupKey, userID, key) ==
    LET err == IF setupKey = "" /\ userID = "" THEN "Unauthenticated"
               ELSE IF ~AccountFound(management.account, setupKey, userID) THEN "NotFound"
               ELSE "nil"
    IN management' = [management EXCEPT
                         !.calls[c] = IF err = "nil"
                                      THEN PeerCall(op, setupKey, userID, key, "addLock",
                                                    "nil", 0)
                                      ELSE PeerCall(op, "", "", key, "done", err, 0)]

\* the call AddPeer(setupKey, userID, peer)
AddPeerCall(c, setupKey, userID, key) ==
    /\ Begins(c)
    /\ AddPeerEnter(c, "AddPeer", setupKey, userID, key)
    /\ UNCHANGED notManagement

\* the call LoginPeer(login) up to the account lock: a public key the store
\* does not know is handed to AddPeer
LoginPeerCall(c, setupKey, userID, key) ==
    /\ Begins(c)
    /\ IF FindPeerByPubKey(management.account, key) # 0
       THEN management' = [management EXCEPT
                              !.calls[c] = PeerCall("LoginPeer", setupKey, userID, key,
                                                    "loginLock", "nil", 0)]
       ELSE AddPeerEnter(c, "LoginPeer", setupKey, userID, key)
    /\ UNCHANGED notManagement

\* AddPeer under the account lock
AddPeerLocked(c, saveOk) ==
    /\ management.calls[c].pc = "addLock"
    /\ LET mine == management.calls[c]
           r == AddPeer(management.account, mine.setupKey, mine.userID, mine.key,
                        management.now)
       IN IF r.err = "nil" /\ ~saveOk
          THEN management' = [management EXCEPT
                                 !.calls[c] = CallReturned(mine, "Internal", 0)]
          ELSE management' = [management EXCEPT
                                 !.account = r.account,
                                 !.calls[c] = CallReturned(mine, r.err, r.peer)]
    /\ UNCHANGED notManagement

\* LoginPeer under the account lock
LoginPeerLocked(c, saveOk) ==
    /\ management.calls[c].pc = "loginLock"
    /\ LET mine == management.calls[c]
           r == LoginPeer(management.account,
                          [WireGuardPubKey |-> mine.key, UserID |-> mine.userID,
                           Meta |-> "m1", SSHKey |-> ""],
                          management.now, saveOk)
       IN management' = [management EXCEPT
                            !.account = r.account,
                            !.calls[c] = CallReturned(mine, r.err, r.peer)]
    /\ UNCHANGED notManagement

NextRegister ==
    \/ \E c \in Callers, setupKey \in SetupKeyInputs, userID \in {"", "u1"}, key \in PubKeys :
          AddPeerCall(c, setupKey, userID, key)
    \/ \E c \in Callers, setupKey \in SetupKeyInputs, userID \in {"", "u1"}, key \in PubKeys :
          LoginPeerCall(c, setupKey, userID, key)
    \/ \E c \in Callers, saveOk \in BOOLEAN : AddPeerLocked(c, saveOk)
    \/ \E c \in Callers, saveOk \in BOOLEAN : LoginPeerLocked(c, saveOk)

SpecRegister == InitRegister /\ [][NextRegister]_vars

\* the peers of the account that have the public key
WithKey(account, key) == {i \in DOMAIN account.Peers : account.Peers[i].Key = key}

\* caller c runs AddPeer under the account lock, and the call returns
RegistrationStep(c) ==
    management.calls[c].pc = "addLock" /\ management'.calls[c].pc = "done"

\* C37: however AddPeer and LoginPeer calls with the same WireGuard public
\* key interleave, the account never has two peers with one key, and a
\* registration of a key that is registered is rejected with
\* PreconditionFailed and leaves the account (peers, groups, setup keys and
\* network serial) as it is.
C37_OnePeerPerKey ==
    /\ [](\A key \in PubKeys : Cardinality(WithKey(management.account, key)) <= 1)
    /\ [][\A c \in Callers :
             (/\ RegistrationStep(c)
              /\ FindPeerByPubKey(management.account, management.calls[c].key) # 0)
             => /\ management'.calls[c].err = "PreconditionFailed"
                /\ management'.account = management.account]_vars

\* two LoginPeer calls with one unregistered key were both handed to AddPeer:
\* one registered the key with a setup key, the other was rejected
C37_Witness ==
    \E c, d \in Callers :
       /\ c # d
       /\ management.calls[c] = PeerCall("LoginPeer", "", "", "wg2", "done", "nil",
                                         management.calls[c].peer)
       /\ management.calls[d] = PeerCall("LoginPeer", "", "", "wg2", "done",
                                         "PreconditionFailed", 0)
       /\ Cardinality(WithKey(management.account, "wg2")) = 1
       /\ management.account.SetupKeys["SK1"].UsedTimes = 1
       /\ management.account.Serial = 1

----------------------------------------------------------------------------
(* LoginPeer of a registered peer *)

\* the registered peers: added by a user or with a setup key, with any last
\* login, with or without login expiration, marked expired or not
RegisteredPeers ==
    {[NewPeer(1, "wg1", IF u = "" THEN "SK1" ELSE "", u, t) EXCEPT
         !.LoginExpirationEnabled = e, !.LoginExpired = x] :
        u \in {"", "u1", "u2"}, t \in 0..MaxTime, e \in BOOLEAN, x \in BOOLEAN}

\* the accounts that hold one registered peer: its owner blocked or not,
\* login expiration of the account on or off
LoginAccounts ==
    {[AccountOf([i \in {1} |-> p], b) EXCEPT !.Settings.PeerLoginExpirationEnabled = s] :
        p \in RegisteredPeers, b \in {{}, {"u1"}}, s \in BOOLEAN}

\* the logins of the peer: with or without a user, with the known or with
\* new system information, with or without a new SSH key
Logins ==
    {[WireGuardPubKey |-> "wg1", UserID |-> u, Meta |-> meta, SSHKey |-> ssh] :
        u \in {"", "u1", "u2"}, meta \in {"m1", "m2"}, ssh \in {"", "ssh"}}

NoLoginResult == LoginResult(AccountOf(NoPeers, {}), "nil", 0, 0, 0)

InitExpired ==
    /\ Init /\ ~permanent /\ InitQueries /\ NotIOS /\ InitClient /\ InitObserved
    /\ firewall = "none" /\ daemon = "none"
    /\ management \in {[stored |-> a, login |-> l, now |-> MaxTime, called |-> FALSE,
                         reply |-> NoLoginResult] : a \in LoginAccounts, l \in Logins}

\* the call LoginPeer(login) for the registered peer
LoginExpiredPeerCall(saveOk) ==
    /\ ~management.called
    /\ management' = [management EXCEPT
                         !.called = TRUE,
                         !.reply = LoginPeer(management.stored, management.login,
                                             management.now, saveOk)]
    /\ UNCHANGED notManagement

NextExpired == \E saveOk \in BOOLEAN : LoginExpiredPeerCall(saveOk)

SpecExpired == InitExpired /\ [][NextExpired]_vars

\* the registered peer as it was when the call came in
RegisteredPeer == management.stored.Peers[1]

\* the login of the registered peer has expired: it is marked expired, or
\* it was added by a user, expiration is on for the peer and for the
\* account, and the last login is the expiration period or more ago
HasExpired ==
    \/ RegisteredPeer.LoginExpired
    \/ /\ RegisteredPeer.UserID # ""
       /\ RegisteredPeer.LoginExpirationEnabled
       /\ management.stored.Settings.PeerLoginExpirationEnabled
       /\ RegisteredPeer.LastLogin + management.stored.Settings.PeerLoginExpiration
             <= management.now

OwnerBlocked == RegisteredPeer.UserID \in management.stored.Blocked

\* the login carries the user that owns the peer
Reauthenticated ==
    /\ management.login.UserID # ""
    /\ management.login.UserID = RegisteredPeer.UserID
    /\ ~OwnerBlocked

\* C39: LoginPeer for a registered peer whose login has expired succeeds
\* only with the user that owns the peer, who is not blocked; a success
\* refreshes LastLogin, clears the LoginExpired mark, saves the account and
\* notifies its peers; any other login fails, with PermissionDenied for a
\* blocked owner or a missing user and Unauthenticated for another user,
\* returns no network map and leaves the stored peer expired.
C39_ExpiredLoginNeedsOwner ==
    (management.called /\ HasExpired) =>
       LET r == management.reply IN
       /\ r.err = "nil" => Reauthenticated
       /\ r.err = "nil" =>
             /\ r.account.Peers[1].LastLogin = management.now
             /\ ~r.account.Peers[1].LoginExpired
             /\ r.saves >= 1 /\ r.updates >= 1 /\ r.networkMap
       /\ ~Reauthenticated =>
             /\ r.err = IF OwnerBlocked \/ management.login.UserID = ""
                        THEN "PermissionDenied" ELSE "Unauthenticated"
             /\ ~r.networkMap /\ r.peer = 0
             /\ r.account = management.stored

\* the owner logged in again after the login of the peer had run out
C39_Witness ==
    /\ management.called /\ HasExpired /\ ~RegisteredPeer.LoginExpired
    /\ RegisteredPeer.LastLogin < management.now
    /\ Reauthenticated
    /\ management.reply.err = "nil"
    /\ management.reply.account.Peers[1].LastLogin = management.now
    /\ management.reply.account # management.stored

----------------------------------------------------------------------------
(* deletePeers *)

\* Account.DeletePeer: the peer leaves the peers and every group
DeletePeer(account, id) ==
    [account EXCEPT !.Peers = [i \in DOMAIN @ \ {id} |-> @[i]],
                    !.Groups = [g \in DOMAIN @ |-> @[g] \ {id}]]

\* the update deletePeers sends to a deleted peer: a network map without
\* remote peers and without firewall rules, at the serial of the account
EmptyNetworkMap(account) ==
    [Serial |-> account.Serial, RemotePeers |-> {}, RemotePeersIsEmpty |-> TRUE,
     FirewallRules |-> {}, FirewallRulesIsEmpty |-> TRUE]

\* what the peersUpdateManager and the event store were asked to do
SendUpdate(id, update) == [op |-> "SendUpdate", peer |-> id, update |-> update]

CloseChannel(id) ==
    [op |-> "CloseChannel", peer |-> id, update |-> EmptyNetworkMap([Serial |-> 0])]

Deleted(account, channels, events, err) ==
    [account |-> account, channels |-> channels, events |-> events, err |-> err]

\* the second loop of deletePeers, from the i-th peer on
RECURSIVE deleteLoop(_, _, _, _, _)
deleteLoop(account, channels, peerIDs, i, events) ==
    IF i > Len(peerIDs) THEN Deleted(account, channels, events, "nil")
    ELSE LET id == peerIDs[i]
             after == DeletePeer(account, id)
         IN deleteLoop(after, channels \ {id}, peerIDs, i + 1,
                       events \o <<SendUpdate(id, EmptyNetworkMap(after)),
                                   CloseChannel(id)>>)

\* a deletePeers that looks up the first peer only
deletePeersFirstOnly(account, channels, peerIDs) ==
    IF Len(peerIDs) > 0 /\ peerIDs[1] \notin DOMAIN account.Peers
    THEN Deleted(account, channels, <<>>, "NotFound")
    ELSE deleteLoop(account, channels, peerIDs, 1, <<>>)

\* deletePeers: every peer is looked up before the first is deleted
deletePeers(account, channels, peerIDs) ==
    IF \E j \in DOMAIN peerIDs : peerIDs[j] \notin DOMAIN account.Peers
    THEN Deleted(account, channels, <<>>, "NotFound")
    ELSE deleteLoop(account, channels, peerIDs, 1, <<>>)

\* the lists of peer ids a caller hands over: ids of the account and one
\* unknown id, in any order, an id possibly more than once
PeerIDLists == UNION {[1..n -> 1..(NumPeers + 1)] : n \in 0..(NumPeers + 1)}

\* the accounts the peers are deleted from: some of the peers registered,
\* all of them in group All and the first also in g1
DeleteAccounts ==
    {[AccountOf([i \in S |-> NewPeer(i, "wg1", "", "u1", 0)], {}) EXCEPT
         !.Groups.g1 = S \cap {1}] : S \in SUBSET PeerIDs}

InitDelete ==
    /\ Init /\ ~permanent /\ InitQueries /\ NotIOS /\ InitClient /\ InitObserved
    /\ firewall = "none" /\ daemon = "none"
    /\ management \in {[stored |-> a, open |-> ch, peerIDs |-> l, called |-> FALSE,
                         reply |-> Deleted(a, ch, <<>>, "nil")] :
                           a \in DeleteAccounts, ch \in SUBSET PeerIDs, l \in PeerIDLists}

\* the call deletePeers(account, peerIDs, userID), made under the account lock
DeletePeersCall ==
    /\ ~management.called
    /\ management' = [management EXCEPT
                         !.called = TRUE,
                         !.reply = deletePeers(management.stored, management.open,
                                               management.peerIDs)]
    /\ UNCHANGED notManagement

NextDelete == DeletePeersCall

SpecDelete == InitDelete /\ [][NextDelete]_vars

\* the ids of the call
Listed == SeqToSet(management.peerIDs)

\* C38: deletePeers returns NotFound when one of the ids is not a peer of
\* the account, and then deletes no peer, sends no update and closes no
\* channel; otherwise it deletes every listed peer and no other, and sends
\* each of them an empty network map before it closes its channel.
C38_DeleteAllOrNothing ==
    management.called =>
       LET r == management.reply IN
       IF \E id \in Listed : id \notin DOMAIN management.stored.Peers
       THEN /\ r.err = "NotFound"
            /\ r.account = management.stored
            /\ r.events = <<>>
            /\ r.channels = management.open
       ELSE /\ r.err = "nil"
            /\ DOMAIN r.account.Peers = DOMAIN management.stored.Peers \ Listed
            /\ \A g \in DOMAIN r.account.Groups : r.account.Groups[g] \cap Listed = {}
            /\ r.channels = management.open \ Listed
            /\ \A id \in Listed :
                  \E i, j \in DOMAIN r.events :
                     /\ i < j
                     /\ r.events[i].op = "SendUpdate" /\ r.events[i].peer = id
                     /\ r.events[i].update.RemotePeers = {}
                     /\ r.events[i].update.FirewallRules = {}
                     /\ r.events[j] = CloseChannel(id)
                     /\ \A k \in 1..(i - 1) : r.events[k] # CloseChannel(id)

\* a list that names a registered peer with an open channel and then an
\* unknown peer was refused
C38_Witness ==
    /\ management.called
    /\ Len(management.peerIDs) = 2
    /\ management.peerIDs[1] \in DOMAIN management.stored.Peers
    /\ management.peerIDs[2] \notin DOMAIN management.stored.Peers
    /\ management.peerIDs[1] \in management.open
    /\ management.reply.err = "NotFound"
    /\ management.reply.account = management.stored

====
